---- MODULE Spec2Model ----
(***************************************************************************)
(* marzer/dox (src/dox.py): the HTML post-processing pipeline.             *)
(*                                                                         *)
(* main() runs single-threaded through configuration, doxygen, XML         *)
(* preprocessing, regex compilation and m.css, then fans postprocess_file  *)
(* out over a ThreadPoolExecutor, one unit of work per generated page.     *)
(* Each unit parses its page, calls the nine fixers in order and flushes   *)
(* the page when some fixer returned true.  The module-level flag          *)
(* _thread_error and the class attributes of CustomTagsFix (the emoji      *)
(* table) are the only state the workers share.                            *)
(***************************************************************************)
EXTENDS Integers, Sequences, FiniteSets, TLC

\* ------------------------------------------------------------------ bounds

\* the largest number of pages m.css generates into the html directory
NumDocs == 2
\* the values given to --threads
ThreadChoices == {0, 1, 2}

\* the cap on the pool size, min(64, args.threads)
PoolCap == 64

\* ------------------------------------------------------------------- pages

(* A page is abstracted to the features the fixers of this model look at:  *)
(*   ok     the tree has body.main.article.div.div.div (HTMLDocument       *)
(*          raises AttributeError otherwise)                               *)
(*   name   the lower-cased file name                                      *)
(*   img    the article contains an <img>                                  *)
(*   h1     the number of <h1> in the article                              *)
(*   link   the one anchor of the body:                                    *)
(*            "none"       no anchor                                       *)
(*            "nohref"     <a> without href                                *)
(*            "dead_p_doc" <p><a class="m-doc" href="gone.html">           *)
(*            "dead_p"     <p><a href="gone.html">                         *)
(*            "dead_dt"    <dt><a class="m-doc" href="gone.html#frag">     *)
(*            "self"       <dt id="frag"><a class="m-doc-self" href="#frag">*)
(*   emoji  the payload of the one [emoji ...] shortcode in a <p>, or      *)
(*          "none"; out is what the shortcode was replaced by              *)
(*   ext    the body has an <a href="https://..."> not yet marked external *)
(* The pages hold no code blocks, no section with id "section", no text    *)
(* matching an auto-link pattern and no template block.                    *)
Page(ok, name, img, h1, link, emoji, ext) ==
    [ok |-> ok, name |-> name, img |-> img, h1 |-> h1, link |-> link,
     emoji |-> emoji, out |-> "", ext |-> ext]

Plain      == Page(TRUE,  "page.html",  FALSE, 1, "none",       "none",   FALSE)
Malformed  == Page(FALSE, "page.html",  FALSE, 0, "none",       "none",   FALSE)
DeadPEmoji == Page(TRUE,  "page.html",  FALSE, 1, "dead_p_doc", "sundae", TRUE)
NoHref     == Page(TRUE,  "page.html",  FALSE, 1, "nohref",     "none",   FALSE)
IndexPage  == Page(TRUE,  "index.html", TRUE,  1, "dead_dt",    "none",   FALSE)
IndexNoH1  == Page(TRUE,  "index.html", TRUE,  0, "dead_p_doc", "none",   FALSE)

\* what m.css may generate
Catalogue == {Plain, Malformed, DeadPEmoji, IndexPage, IndexNoH1}

\* the file names of a directory are distinct: at most one page is index.html
OneIndex(pages) ==
    \A i, j \in DOMAIN pages :
        (pages[i].name = "index.html" /\ pages[j].name = "index.html") => i = j

\* open(path, 'w') leaves the file empty; html5lib parses that into a tree
\* without body.main
Truncated(name) == Page(FALSE, name, FALSE, 0, "none", "none", FALSE)

\* the local `doc` of a unit of work that has not parsed or has returned
NoDoc == Page(FALSE, "nodoc", FALSE, 0, "none", "none", FALSE)

\* ------------------------------------------------------------------ fixers

\* what a fixer call gives: the tree as mutated, the value returned, or raised
Result(t, changed) == [t |-> t, changed |-> changed, raised |-> FALSE]
Raised(t) == [t |-> t, changed |-> FALSE, raised |-> TRUE]

\* DeadLinksFix.__call__: anchor['href'] raises KeyError on an anchor without
\* href; a dead local link loses m-doc; under a dt or div it becomes a
\* self-link to the parent's id; changed is set for every dead link found
DeadLinksFix(file, t) ==
    CASE t.link = "nohref"     -> Raised(t)
      [] t.link = "dead_p_doc" -> Result([t EXCEPT !.link = "dead_p"], TRUE)
      [] t.link = "dead_p"     -> Result(t, TRUE)
      [] t.link = "dead_dt"    -> Result([t EXCEPT !.link = "self"], TRUE)
      [] OTHER                 -> Result(t, FALSE)

\* CustomTagsFix.__call__ on a page whose only shortcode is the emoji one:
\* the first pass replaces it by what the handler returned, the second pass
\* finds nothing; `handled` is that handler's return value
CustomTagsFix(file, t, handled) ==
    IF t.emoji = "none"
    THEN Result(t, FALSE)
    ELSE Result([t EXCEPT !.emoji = "none", !.out = handled], TRUE)

\* CodeBlockFix.__call__: no pre/code of class m-code in the page
CodeBlockFix(file, t) == Result(t, FALSE)

\* IndexPageFix.__call__ (no badges configured): the banner image replaces
\* the first h1; parent.find('h1') is None when there is none
IndexPageFix(file, t) ==
    IF file # "index.html" THEN Result(t, FALSE)
    ELSE IF ~t.img THEN Result(t, FALSE)
    ELSE IF t.h1 = 0 THEN Raised(t)
    ELSE Result([t EXCEPT !.h1 = t.h1 - 1], TRUE)

\* ModifiersFix1.__call__, ModifiersFix2.__call__: find_all_from_sections
\* looks in the sections whose id is "section"; the page has none
ModifiersFix1(file, t) == Result(t, FALSE)
ModifiersFix2(file, t) == Result(t, FALSE)

\* AutoDocLinksFix.__call__: no m-doc link text and no text run matches
AutoDocLinksFix(file, t) == Result(t, FALSE)

\* LinksFix.__call__: an external link gets target=_blank and dox-external
LinksFix(file, t) ==
    IF t.ext THEN Result([t EXCEPT !.ext = FALSE], TRUE) ELSE Result(t, FALSE)

\* TemplateTemplateFix.__call__: no div of class m-doc-template in the page
TemplateTemplateFix(file, t) == Result(t, FALSE)

\* main: the list `fixes`, in order
fixes == <<"DeadLinksFix", "CustomTagsFix", "CodeBlockFix", "IndexPageFix",
           "ModifiersFix1", "ModifiersFix2", "AutoDocLinksFix", "LinksFix",
           "TemplateTemplateFix">>

\* fix(dir, file, doc) for the fixer at position i of `fixes`
CallFix(i, file, t, handled) ==
    CASE fixes[i] = "DeadLinksFix"        -> DeadLinksFix(file, t)
      [] fixes[i] = "CustomTagsFix"       -> CustomTagsFix(file, t, handled)
      [] fixes[i] = "CodeBlockFix"        -> CodeBlockFix(file, t)
      [] fixes[i] = "IndexPageFix"        -> IndexPageFix(file, t)
      [] fixes[i] = "ModifiersFix1"       -> ModifiersFix1(file, t)
      [] fixes[i] = "ModifiersFix2"       -> ModifiersFix2(file, t)
      [] fixes[i] = "AutoDocLinksFix"     -> AutoDocLinksFix(file, t)
      [] fixes[i] = "LinksFix"            -> LinksFix(file, t)
      [] fixes[i] = "TemplateTemplateFix" -> TemplateTemplateFix(file, t)

\* ------------------------------------------------------------------- state

VARIABLES
    mainpc,        \* where main() is
    exitCode,      \* <<status>> once sys.exit(status) was called, <<>> before
    threads,       \* args.threads
    symsets,       \* _namespaces, _types, _enums, _string_literals,
                   \* _numeric_literals: the alternatives, and how often the
                   \* global was rebound to a compiled pattern
    autolinks,     \* how often AutoDocLinksFix.__init__ compiled _auto_links
    xmlDone,       \* preprocess_xml has returned
    disk,          \* the html directory: the sequence of pages, sorted by name
    orig,          \* the pages as m.css generated them
    emojiFile,     \* emojis_v2.json beside the script
    thread_error,  \* _thread_error
    pc,            \* per unit of work: where postprocess_file is
    fixi,          \* per unit: the position in `fixes` of the current fixer
    changed,       \* per unit: the local `changed`
    doc,           \* per unit: the local `doc` (its tree)
    epc,           \* per unit: the line of __single_tags_substitute it is at
    emojis,        \* CustomTagsFix.__emojis
    codepoints,    \* CustomTagsFix.__emoji_codepoints
    yielded,       \* the jobs as_completed has handed to main's loop
    run,           \* which run of the pipeline over the html directory this is
    \* history, read by the properties only
    calls,         \* per unit: the positions of the fixers called, in order
    rets,          \* per unit: the values those calls returned
    flushes,       \* per unit: how often flush() opened the file
    status,        \* per unit: "", "skipped", "ok", "parse_error",
                   \* "fixer_error"
    flushFlag,     \* per unit: _thread_error as flush() returned, or "none"
    builds,        \* how often a worker published a processed emoji table
    sawPartial,    \* per unit: it read a half-built emoji table
    setters,       \* the units whose except clause set _thread_error
    \* one fixer applied to one fragment of a page, outside the pipeline
    frag           \* the fragment, and what the fixer has made of it so far

vars == <<mainpc, exitCode, threads, symsets, autolinks, xmlDone, disk, orig, emojiFile,
          thread_error, pc, fixi, changed, doc, epc, emojis, codepoints,
          yielded, run, calls, rets, flushes, status, flushFlag, builds,
          sawPartial, setters, frag>>

mainVars == <<mainpc, exitCode, threads, symsets, autolinks, xmlDone>>
emojiVars == <<emojiFile, emojis, codepoints, builds, sawPartial, epc>>
histVars == <<calls, rets, flushes, status, flushFlag, setters>>

Slots == 1..NumDocs
Docs == DOMAIN disk

SetNames == {"namespaces", "types", "enums", "string_literals",
             "numeric_literals"}

\* the module-level defaults of the CONFIG section, by a representative each
DefaultAlts ==
    [namespaces |-> {"std"}, types |-> {"Foo"}, enums |-> {"ios::app"},
     string_literals |-> {"sv"}, numeric_literals |-> {}]

\* what preprocess_xml finds in the doxygen index of a project with one
\* namespace, one class, one nested enum and one enum value
IndexAlts ==
    [namespaces |-> {"ns"}, types |-> {"ns::C", "ns::C::E"},
     enums |-> {"ns::C::E::V"}, string_literals |-> {}, numeric_literals |-> {}]
NoAlts == [n \in SetNames |-> {}]

\* no fixer is being applied to a fragment on its own
NoFrag == [fn |-> "none"]

\* the state after the module has been loaded and before main() is called
Loaded ==
    /\ mainpc = "config"
    /\ exitCode = <<>>
    /\ threads \in ThreadChoices
    /\ symsets = [n \in SetNames |-> [alts |-> DefaultAlts[n], compiled |-> 0]]
    /\ autolinks = 0
    /\ xmlDone = FALSE
    /\ disk = <<>>
    /\ orig = <<>>
    /\ emojiFile \in {"raw", "processed"}
    /\ thread_error = FALSE
    /\ pc = [d \in Slots |-> "idle"]
    /\ fixi = [d \in Slots |-> 0]
    /\ changed = [d \in Slots |-> FALSE]
    /\ doc = [d \in Slots |-> NoDoc]
    /\ epc = [d \in Slots |-> "none"]
    /\ emojis = "None"
    /\ codepoints = "None"
    /\ yielded = {}
    /\ run = 1
    /\ calls = [d \in Slots |-> <<>>]
    /\ rets = [d \in Slots |-> <<>>]
    /\ flushes = [d \in Slots |-> 0]
    /\ status = [d \in Slots |-> ""]
    /\ flushFlag = [d \in Slots |-> "none"]
    /\ builds = 0
    /\ sawPartial = [d \in Slots |-> FALSE]
    /\ setters = {}

Init == Loaded /\ frag = NoFrag

\* -------------------------------------------------------------------- main

Min(a, b) == IF a < b THEN a ELSE b
Max(a, b) == IF a > b THEN a ELSE b

\* main: ThreadPoolExecutor(max_workers=max(1, min(64, args.threads)))
\* a pool sized without the lower clamp
max_workers_unclamped(t) == Min(PoolCap, t)

max_workers(t) == Max(1, Min(PoolCap, t))

\* the regexes compiled before preprocess_xml has added its symbols
After_swapped(phase) ==
    CASE phase = "config"         -> "doxygen"
      [] phase = "doxygen"        -> "compile"
      [] phase = "compile"        -> "preprocess_xml"
      [] phase = "preprocess_xml" -> "mcss"
      [] phase = "mcss"           -> "fixes"
      [] phase = "fixes"          -> "files"
      [] phase = "files"          -> "submit"
      [] phase = "submit"         -> "as_completed"
      [] phase = "as_completed"   -> "exit_with"
      [] phase = "exit_with"      -> "return"
      [] phase = "return"         -> "exit"

\* main: the order of its statements
After(phase) ==
    CASE phase = "config"         -> "doxygen"
      [] phase = "doxygen"        -> "preprocess_xml"
      [] phase = "preprocess_xml" -> "compile"
      [] phase = "compile"        -> "mcss"
      [] phase = "mcss"           -> "fixes"
      [] phase = "fixes"          -> "files"
      [] phase = "files"          -> "submit"
      [] phase = "submit"         -> "as_completed"
      [] phase = "as_completed"   -> "exit_with"
      [] phase = "exit_with"      -> "return"
      [] phase = "return"         -> "exit"

\* __main__: an exception out of main() is printed and the exit status is -1
MainRaises ==
    /\ mainpc' = "exit"
    /\ exitCode' = <<-1>>
    /\ UNCHANGED <<threads, symsets, autolinks, xmlDone>>

workerVars == <<disk, orig, thread_error, pc, fixi, changed, doc, yielded, run>>

\* main: the paths and the configuration are read; a missing Doxyfile or
\* directory raises
Config ==
    /\ mainpc = "config"
    /\ \/ /\ mainpc' = After("config")
          /\ UNCHANGED <<exitCode, threads, symsets, autolinks, xmlDone>>
       \/ MainRaises
    /\ UNCHANGED <<workerVars, emojiVars, histVars>>
    /\ UNCHANGED frag

\* main: subprocess.run(['doxygen', ...], check=True)
Doxygen ==
    /\ mainpc = "doxygen"
    /\ \/ /\ mainpc' = After("doxygen")
          /\ UNCHANGED <<exitCode, threads, symsets, autolinks, xmlDone>>
       \/ MainRaises
    /\ UNCHANGED <<workerVars, emojiVars, histVars>>
    /\ UNCHANGED frag

\* preprocess_xml: _types.add, _namespaces.add, _enums.add for what the
\* doxygen index names; a compiled pattern has no add
PreprocessXml ==
    /\ mainpc = "preprocess_xml"
    /\ \E found \in {NoAlts, IndexAlts} :
          IF \E n \in SetNames : found[n] # {} /\ symsets[n].compiled > 0
          THEN MainRaises
          ELSE /\ symsets' = [n \in SetNames |->
                                [symsets[n] EXCEPT !.alts = @ \cup found[n]]]
               /\ mainpc' = After("preprocess_xml")
               /\ xmlDone' = TRUE
               /\ UNCHANGED <<exitCode, threads, autolinks>>
    /\ UNCHANGED <<workerVars, emojiVars, histVars>>
    /\ UNCHANGED frag

\* main: the five flatten_into_compiled_regex assignments
Compile ==
    /\ mainpc = "compile"
    /\ symsets' = [n \in SetNames |-> [symsets[n] EXCEPT !.compiled = @ + 1]]
    /\ mainpc' = After("compile")
    /\ UNCHANGED <<exitCode, threads, autolinks, xmlDone>>
    /\ UNCHANGED <<workerVars, emojiVars, histVars>>
    /\ UNCHANGED frag

\* main: m.css generates the pages into the (emptied) html directory
Mcss ==
    /\ mainpc = "mcss"
    /\ \/ /\ \E n \in 0..NumDocs : \E pages \in [1..n -> Catalogue] :
                /\ OneIndex(pages)
                /\ disk' = pages
                /\ orig' = pages
          /\ mainpc' = After("mcss")
          /\ UNCHANGED <<exitCode, threads, symsets, autolinks, xmlDone>>
       \/ /\ MainRaises
          /\ UNCHANGED <<disk, orig>>
    /\ UNCHANGED <<thread_error, pc, fixi, changed, doc, yielded, run>>
    /\ UNCHANGED <<emojiVars, histVars>>
    /\ UNCHANGED frag

\* main: the list `fixes` is built; AutoDocLinksFix.__init__ compiles the
\* auto-link patterns
MakeFixes ==
    /\ mainpc = "fixes"
    /\ autolinks' = autolinks + 1
    /\ mainpc' = After("fixes")
    /\ UNCHANGED <<exitCode, threads, symsets, xmlDone>>
    /\ UNCHANGED <<workerVars, emojiVars, histVars>>
    /\ UNCHANGED frag

\* __main__: sys.exit(0) when main() returned None (here <<>>), else
\* sys.exit(int(result))
ExitStatus(result) == IF result = <<>> THEN <<0>> ELSE result

\* main: files = get_all_files(html_dir); without files main returns None
ListFiles ==
    /\ mainpc = "files"
    /\ IF Len(disk) = 0
       THEN /\ mainpc' = "exit"
            /\ exitCode' = ExitStatus(<<>>)
       ELSE /\ mainpc' = After("files")
            /\ UNCHANGED exitCode
    /\ UNCHANGED <<threads, symsets, autolinks, xmlDone>>
    /\ UNCHANGED <<workerVars, emojiVars, histVars>>
    /\ UNCHANGED frag

\* -------------------------------------------------------------- the pool

\* the units of work a pool thread is executing
Running == {d \in Docs : pc[d] \notin {"idle", "queued", "done"}}

\* main: executor.submit(postprocess_file, dir, file, fixes), in file order
Submit(d) ==
    /\ mainpc = "submit"
    /\ d \in Docs
    /\ pc[d] = "idle"
    /\ \A e \in Docs : e < d => pc[e] # "idle"
    /\ pc' = [pc EXCEPT ![d] = "queued"]
    /\ mainpc' = IF d = Len(disk) THEN After("submit") ELSE "submit"
    /\ UNCHANGED <<exitCode, threads, symsets, autolinks, xmlDone>>
    /\ UNCHANGED <<disk, orig, thread_error, fixi, changed, doc, yielded, run>>
    /\ UNCHANGED <<emojiVars, histVars>>
    /\ UNCHANGED frag

\* main: for job in futures.as_completed(jobs): on _thread_error the loop
\* calls executor.shutdown(False) and breaks, else it prints and goes on
AsCompleted(d) ==
    /\ mainpc = "as_completed"
    /\ d \in Docs \ yielded
    /\ pc[d] = "done"
    /\ IF thread_error
       THEN /\ mainpc' = After("as_completed")
            /\ UNCHANGED yielded
       ELSE /\ yielded' = yielded \cup {d}
            /\ mainpc' = IF yielded' = Docs THEN After("as_completed")
                                             ELSE "as_completed"
    /\ UNCHANGED <<exitCode, threads, symsets, autolinks, xmlDone>>
    /\ UNCHANGED <<disk, orig, thread_error, pc, fixi, changed, doc, run>>
    /\ UNCHANGED <<emojiVars, histVars>>
    /\ UNCHANGED frag

\* the end of the with block: ThreadPoolExecutor.__exit__ is
\* shutdown(wait=True), which joins the pool threads; the queued work items
\* are not cancelled and are run first
Joined == \A d \in Docs : pc[d] = "done"

ExitWith ==
    /\ mainpc = "exit_with"
    /\ Joined
    /\ mainpc' = After("exit_with")
    /\ UNCHANGED <<exitCode, threads, symsets, autolinks, xmlDone>>
    /\ UNCHANGED <<workerVars, emojiVars, histVars>>
    /\ UNCHANGED frag

\* a main that forgets the flag
MainResult_none(err) == <<>>

\* main: `if _thread_error: return 1`, else the end of main
MainResult(err) == IF err THEN <<1>> ELSE <<>>

Return ==
    /\ mainpc = "return"
    /\ exitCode' = ExitStatus(MainResult(thread_error))
    /\ mainpc' = After("return")
    /\ UNCHANGED <<threads, symsets, autolinks, xmlDone>>
    /\ UNCHANGED <<workerVars, emojiVars, histVars>>
    /\ UNCHANGED frag

\* ------------------------------------------------------- postprocess_file

\* a unit of work that does not look at the flag
ShouldSkip_never(flag) == FALSE

\* postprocess_file: `if (_thread_error): return False`
ShouldSkip(flag) == flag

\* a flush that does not look at `changed`
ShouldFlush_always(chg) == TRUE

\* postprocess_file: `if (changed): doc.flush()`
ShouldFlush(chg) == chg

\* a loop that also ends when the abort flag is found set
MoreFixes_abort(i) == i < Len(fixes) /\ ~thread_error

\* a loop that stops one fixer short
MoreFixes_short(i) == i < Len(fixes) - 1

\* postprocess_file: `for fix in fixes`
MoreFixes(i) == i < Len(fixes)

\* a pool thread takes the oldest queued work item and calls
\* postprocess_file, which reads _thread_error first
Start(d) ==
    /\ d \in Docs
    /\ pc[d] = "queued"
    /\ \A e \in Docs : e < d => pc[e] \notin {"idle", "queued"}
    /\ Cardinality(Running) < max_workers(threads)
    /\ IF ShouldSkip(thread_error)
       THEN /\ pc' = [pc EXCEPT ![d] = "done"]
            /\ status' = [status EXCEPT ![d] = "skipped"]
       ELSE /\ pc' = [pc EXCEPT ![d] = "parse"]
            /\ UNCHANGED status
    /\ UNCHANGED <<mainVars, emojiVars>>
    /\ UNCHANGED <<disk, orig, thread_error, fixi, changed, doc, yielded, run>>
    /\ UNCHANGED <<calls, rets, flushes, flushFlag, setters>>
    /\ UNCHANGED frag

\* HTMLDocument.__init__: the file is read and parsed; article_content is
\* doc.body.main.article.div.div.div
Parse(d) ==
    /\ d \in Docs
    /\ pc[d] = "parse"
    /\ IF disk[d].ok
       THEN /\ doc' = [doc EXCEPT ![d] = disk[d]]
            /\ fixi' = [fixi EXCEPT ![d] = 1]
            /\ pc' = [pc EXCEPT ![d] = "fix"]
            /\ UNCHANGED status
       ELSE /\ pc' = [pc EXCEPT ![d] = "except"]
            /\ status' = [status EXCEPT ![d] = "parse_error"]
            /\ UNCHANGED <<doc, fixi>>
    /\ UNCHANGED <<mainVars, emojiVars>>
    /\ UNCHANGED <<disk, orig, thread_error, changed, yielded, run>>
    /\ UNCHANGED <<calls, rets, flushes, flushFlag, setters>>
    /\ UNCHANGED frag

\* postprocess_file: fix(dir, file, doc) has returned r.changed; the loop
\* goes on, or ends and the flush is decided
Returned(d, r) ==
    /\ rets' = [rets EXCEPT ![d] = Append(@, r.changed)]
    /\ changed' = [changed EXCEPT ![d] = @ \/ r.changed]
    /\ doc' = [doc EXCEPT ![d] = IF MoreFixes(fixi[d]) \/ ShouldFlush(changed'[d])
                                  THEN r.t ELSE NoDoc]
    /\ IF MoreFixes(fixi[d])
       THEN /\ fixi' = [fixi EXCEPT ![d] = @ + 1]
            /\ pc' = [pc EXCEPT ![d] = "fix"]
            /\ UNCHANGED status
       ELSE /\ UNCHANGED fixi
            /\ IF ShouldFlush(changed'[d])
               THEN /\ pc' = [pc EXCEPT ![d] = "flush_open"]
                    /\ UNCHANGED status
               ELSE /\ pc' = [pc EXCEPT ![d] = "done"]
                    /\ status' = [status EXCEPT ![d] = "ok"]

\* postprocess_file: the fixer raised; control is in the except clause
RaisedIn(d) ==
    /\ pc' = [pc EXCEPT ![d] = "except"]
    /\ status' = [status EXCEPT ![d] = "fixer_error"]
    /\ UNCHANGED <<rets, doc, changed, fixi>>

\* postprocess_file: one iteration of `for fix in fixes`; the emoji handler
\* of CustomTagsFix is entered when the page holds an emoji shortcode
Fix(d) ==
    /\ d \in Docs
    /\ pc[d] = "fix"
    /\ calls' = [calls EXCEPT ![d] = Append(@, fixi[d])]
    /\ IF fixes[fixi[d]] = "CustomTagsFix" /\ doc[d].emoji # "none"
       THEN /\ pc' = [pc EXCEPT ![d] = "emoji"]
            /\ epc' = [epc EXCEPT ![d] = "e659"]
            /\ UNCHANGED <<rets, doc, changed, fixi, status>>
       ELSE /\ LET r == CallFix(fixi[d], doc[d].name, doc[d], "")
               IN IF r.raised THEN RaisedIn(d) ELSE Returned(d, r)
            /\ UNCHANGED epc
    /\ UNCHANGED <<mainVars, emojiFile, emojis, codepoints, builds, sawPartial>>
    /\ UNCHANGED <<disk, orig, thread_error, yielded, run>>
    /\ UNCHANGED <<flushes, flushFlag, setters>>
    /\ UNCHANGED frag

\* HTMLDocument.flush: open(self.__path, 'w') empties the file
FlushOpen(d) ==
    /\ d \in Docs
    /\ pc[d] = "flush_open"
    /\ disk' = [disk EXCEPT ![d] = Truncated(disk[d].name)]
    /\ flushes' = [flushes EXCEPT ![d] = @ + 1]
    /\ pc' = [pc EXCEPT ![d] = "flush_write"]
    /\ UNCHANGED <<mainVars, emojiVars>>
    /\ UNCHANGED <<orig, thread_error, fixi, changed, doc, yielded, run>>
    /\ UNCHANGED <<calls, rets, status, flushFlag, setters>>
    /\ UNCHANGED frag

\* HTMLDocument.flush: f.write(str(self.__doc)); postprocess_file returns
FlushWrite(d) ==
    /\ d \in Docs
    /\ pc[d] = "flush_write"
    /\ disk' = [disk EXCEPT ![d] = doc[d]]
    /\ doc' = [doc EXCEPT ![d] = NoDoc]
    /\ pc' = [pc EXCEPT ![d] = "done"]
    /\ status' = [status EXCEPT ![d] = "ok"]
    /\ flushFlag' = [flushFlag EXCEPT ![d] = thread_error]
    /\ UNCHANGED <<mainVars, emojiVars>>
    /\ UNCHANGED <<orig, thread_error, fixi, changed, yielded, run>>
    /\ UNCHANGED <<calls, rets, flushes, setters>>
    /\ UNCHANGED frag

\* an except clause that only prints
Catch_silent(d) ==
    /\ d \in Docs
    /\ pc[d] = "except"
    /\ doc' = [doc EXCEPT ![d] = NoDoc]
    /\ pc' = [pc EXCEPT ![d] = "done"]
    /\ UNCHANGED <<mainVars, emojiVars>>
    /\ UNCHANGED <<disk, orig, thread_error, fixi, changed, yielded, run>>
    /\ UNCHANGED <<calls, rets, flushes, status, flushFlag, setters>>
    /\ UNCHANGED frag

\* postprocess_file: except Exception: print_exception(err);
\* _thread_error = True; return changed
Catch(d) ==
    /\ d \in Docs
    /\ pc[d] = "except"
    /\ thread_error' = TRUE
    /\ setters' = setters \cup {d}
    /\ doc' = [doc EXCEPT ![d] = NoDoc]
    /\ pc' = [pc EXCEPT ![d] = "done"]
    /\ UNCHANGED <<mainVars, emojiVars>>
    /\ UNCHANGED <<disk, orig, fixi, changed, yielded, run>>
    /\ UNCHANGED <<calls, rets, flushes, status, flushFlag>>
    /\ UNCHANGED frag

\* ------------------------------------ CustomTagsFix.__single_tags_substitute

\* the emoji branch, lines 686-696: a hexadecimal or decimal payload that is
\* a known code point gives that code point (a failing `in` is swallowed by
\* the bare except); else a payload that is a key of the table gives
\* cls.__emojis[payload][0] formatted with :X, which raises for the uri
\* string of an unprocessed table; else ''.  "sundae" is a key only of the
\* processed table, "ice_cream" of both, "1f368" is its code point.
EmojiLookup(payload, table, cps) ==
    CASE payload = "1f368" ->
            [out |-> IF cps = "full" THEN "&#x1F368;" ELSE "", raised |-> FALSE]
      [] payload = "ice_cream" ->
            [out |-> "&#x1F368;", raised |-> table # "processed"]
      [] payload = "sundae" ->
            [out |-> IF table = "processed" THEN "&#x1F368;" ELSE "",
             raised |-> FALSE]
      [] OTHER -> [out |-> "", raised |-> FALSE]

EmojiFrame(d) ==
    /\ d \in Docs
    /\ pc[d] = "emoji"
    /\ UNCHANGED <<mainVars, disk, orig, thread_error, yielded, run>>
    /\ UNCHANGED <<calls, flushes, flushFlag, setters>>

EmojiStays(d, line) ==
    /\ epc' = [epc EXCEPT ![d] = line]
    /\ UNCHANGED <<pc, fixi, changed, doc, rets, status>>

EmojiRaises(d) ==
    /\ epc' = [epc EXCEPT ![d] = "none"]
    /\ RaisedIn(d)

\* line 659: if cls.__emojis is None
E659(d) ==
    /\ EmojiFrame(d)
    /\ epc[d] = "e659"
    /\ sawPartial' = [sawPartial EXCEPT ![d] =
            @ \/ (emojis # "None" /\ (emojis = "raw" \/ codepoints # "full"))]
    /\ EmojiStays(d, IF emojis = "None" THEN "e661" ELSE "e682")
    /\ UNCHANGED <<emojiFile, emojis, codepoints, builds>>
    /\ UNCHANGED frag

\* lines 660-661: cls.__emojis = json.loads(read_all_text_from_file(...))
E661(d) ==
    /\ EmojiFrame(d)
    /\ epc[d] = "e661"
    /\ IF emojiFile = "truncated"
       THEN EmojiRaises(d) /\ UNCHANGED emojis
       ELSE EmojiStays(d, "e662") /\ emojis' = emojiFile
    /\ UNCHANGED <<emojiFile, codepoints, builds, sawPartial>>
    /\ UNCHANGED frag

\* line 662: if '__processed' not in cls.__emojis
E662(d) ==
    /\ EmojiFrame(d)
    /\ epc[d] = "e662"
    /\ EmojiStays(d, IF emojis # "processed" THEN "e664" ELSE "e682")
    /\ UNCHANGED <<emojiFile, emojis, codepoints, builds, sawPartial>>
    /\ UNCHANGED frag

\* lines 663-664: emojis = {}; cls.__emoji_codepoints = set()
E664(d) ==
    /\ EmojiFrame(d)
    /\ epc[d] = "e664"
    /\ codepoints' = "empty"
    /\ builds' = builds + 1
    /\ EmojiStays(d, "e665")
    /\ UNCHANGED <<emojiFile, emojis, sawPartial>>
    /\ UNCHANGED frag

\* lines 665-678: for key, uri in cls.__emojis.items(): the code points are
\* added; fullmatch raises TypeError on the [cp, uri] lists of a table that
\* another thread has replaced by the processed one
E665(d) ==
    /\ EmojiFrame(d)
    /\ epc[d] = "e665"
    /\ IF emojis = "processed"
       THEN EmojiRaises(d) /\ UNCHANGED codepoints
       ELSE EmojiStays(d, "e679") /\ codepoints' = "full"
    /\ UNCHANGED <<emojiFile, emojis, builds, sawPartial>>
    /\ UNCHANGED frag

\* line 679: with open(file_path, 'w', ...) empties the cache file
E679(d) ==
    /\ EmojiFrame(d)
    /\ epc[d] = "e679"
    /\ emojiFile' = "truncated"
    /\ EmojiStays(d, "e680")
    /\ UNCHANGED <<emojis, codepoints, builds, sawPartial>>
    /\ UNCHANGED frag

\* line 680: f.write(json.dumps(emojis, ...))
E680(d) ==
    /\ EmojiFrame(d)
    /\ epc[d] = "e680"
    /\ emojiFile' = "processed"
    /\ EmojiStays(d, "e681")
    /\ UNCHANGED <<emojis, codepoints, builds, sawPartial>>
    /\ UNCHANGED frag

\* line 681: cls.__emojis = emojis
E681(d) ==
    /\ EmojiFrame(d)
    /\ epc[d] = "e681"
    /\ emojis' = "processed"
    /\ EmojiStays(d, "e682")
    /\ UNCHANGED <<emojiFile, codepoints, builds, sawPartial>>
    /\ UNCHANGED frag

\* line 682: if cls.__emoji_codepoints is None
E682(d) ==
    /\ EmojiFrame(d)
    /\ epc[d] = "e682"
    /\ EmojiStays(d, IF codepoints = "None" THEN "e683" ELSE "e686")
    /\ UNCHANGED <<emojiFile, emojis, codepoints, builds, sawPartial>>
    /\ UNCHANGED frag

\* line 683: cls.__emoji_codepoints = set()
E683(d) ==
    /\ EmojiFrame(d)
    /\ epc[d] = "e683"
    /\ codepoints' = "empty"
    /\ builds' = builds + 1
    /\ EmojiStays(d, "e684")
    /\ UNCHANGED <<emojiFile, emojis, sawPartial>>
    /\ UNCHANGED frag

\* lines 684-685: for cp in cls.__emojis['__codepoints']: KeyError on a
\* table that is not in processed form
E684(d) ==
    /\ EmojiFrame(d)
    /\ epc[d] = "e684"
    /\ IF emojis # "processed"
       THEN EmojiRaises(d) /\ UNCHANGED codepoints
       ELSE EmojiStays(d, "e686") /\ codepoints' = "full"
    /\ UNCHANGED <<emojiFile, emojis, builds, sawPartial>>
    /\ UNCHANGED frag

\* lines 686-696: the lookup; the handler returns, CustomTagsFix replaces
\* the tag, runs its second pass and returns True
E686(d) ==
    /\ EmojiFrame(d)
    /\ epc[d] = "e686"
    /\ sawPartial' = [sawPartial EXCEPT ![d] =
            @ \/ emojis # "processed" \/ codepoints # "full"]
    /\ epc' = [epc EXCEPT ![d] = "none"]
    /\ LET r == EmojiLookup(doc[d].emoji, emojis, codepoints)
       IN IF r.raised
          THEN RaisedIn(d)
          ELSE Returned(d, CallFix(fixi[d], doc[d].name, doc[d], r.out))
    /\ UNCHANGED <<emojiFile, emojis, codepoints, builds>>
    /\ UNCHANGED frag

\* ------------------------------------------------ the fixer loop as a whole

\* postprocess_file: `for fix in fixes: if fix(dir, file, doc): ...` from
\* position i on, over tree t, single-threaded with the emoji table built:
\* the tree it leaves, whether some fixer returned true, whether one raised
RECURSIVE PassFrom(_, _, _)
PassFrom(i, t, chg) ==
    IF i > Len(fixes)
    THEN [t |-> t, changed |-> chg, raised |-> FALSE]
    ELSE LET h == EmojiLookup(t.emoji, "processed", "full")
             r == CallFix(i, t.name, t, h.out)
         IN IF h.raised \/ r.raised
            THEN [t |-> r.t, changed |-> chg, raised |-> TRUE]
            ELSE PassFrom(i + 1, r.t, chg \/ r.changed)

OnePass(t) == PassFrom(1, t, FALSE)

\* ------------------------------------------------------------ a second run

\* the post-processing stage of main run again over the html directory the
\* first run left (a new process: the module and class globals are fresh)
Rerun ==
    /\ mainpc = "exit"
    /\ exitCode = <<0>>
    /\ run = 1
    /\ Len(disk) > 0
    /\ run' = 2
    /\ mainpc' = "submit"
    /\ exitCode' = <<>>
    /\ orig' = disk
    /\ thread_error' = FALSE
    /\ pc' = [d \in Slots |-> "idle"]
    /\ fixi' = [d \in Slots |-> 0]
    /\ changed' = [d \in Slots |-> FALSE]
    /\ doc' = [d \in Slots |-> NoDoc]
    /\ epc' = [d \in Slots |-> "none"]
    /\ emojis' = "None"
    /\ codepoints' = "None"
    /\ yielded' = {}
    /\ calls' = [d \in Slots |-> <<>>]
    /\ rets' = [d \in Slots |-> <<>>]
    /\ flushes' = [d \in Slots |-> 0]
    /\ status' = [d \in Slots |-> ""]
    /\ flushFlag' = [d \in Slots |-> "none"]
    /\ builds' = 0
    /\ sawPartial' = [d \in Slots |-> FALSE]
    /\ setters' = {}
    /\ UNCHANGED <<threads, symsets, autolinks, xmlDone, disk, emojiFile>>
    /\ UNCHANGED frag

\* ----------------------------------------------------------- specification

Next ==
    \/ Config
    \/ Doxygen
    \/ PreprocessXml
    \/ Compile
    \/ Mcss
    \/ MakeFixes
    \/ ListFiles
    \/ \E d \in Slots : Submit(d)
    \/ \E d \in Slots : Start(d)
    \/ \E d \in Slots : Parse(d)
    \/ \E d \in Slots : Fix(d)
    \/ \E d \in Slots : E659(d)
    \/ \E d \in Slots : E661(d)
    \/ \E d \in Slots : E662(d)
    \/ \E d \in Slots : E664(d)
    \/ \E d \in Slots : E665(d)
    \/ \E d \in Slots : E679(d)
    \/ \E d \in Slots : E680(d)
    \/ \E d \in Slots : E681(d)
    \/ \E d \in Slots : E682(d)
    \/ \E d \in Slots : E683(d)
    \/ \E d \in Slots : E684(d)
    \/ \E d \in Slots : E686(d)
    \/ \E d \in Slots : FlushOpen(d)
    \/ \E d \in Slots : FlushWrite(d)
    \/ \E d \in Slots : Catch(d)
    \/ \E d \in Slots : AsCompleted(d)
    \/ ExitWith
    \/ Return

Spec == Init /\ [][Next]_vars

\* the pipeline, and then once more over its own output
NextRerun == Next \/ Rerun

SpecRerun == Init /\ [][NextRerun]_vars

\* ------------------------------------------------------ fixers in isolation

(* The operators below translate single functions of dox.py.  Each is      *)
(* applied to one fragment, held in `frag`, while main() has not been      *)
(* called: frag.fn names the function, frag.done says it has returned.     *)

pipeVars == <<mainVars, workerVars, emojiVars, histVars>>

\* the module is loaded, the emoji cache is in processed form
Quiet == Loaded /\ threads = 1 /\ emojiFile = "processed"

\* --threads as argparse sees it: absent, given bare, or given with a value
ThreadArgs == (0 - 1) .. (PoolCap + 2)

\* os.cpu_count()
CpuChoices == {1, 8, 96}

\* main: add_argument('--threads', type=int, nargs='?', default=
\* os.cpu_count()): the default when the option is absent, None (here <<>>)
\* when it is given without a value
args_threads(opt, n, cpus) ==
    CASE opt = "absent" -> <<cpus>>
      [] opt = "bare"   -> <<>>
      [] opt = "value"  -> <<n>>

PoolFrags ==
    {[fn |-> "pool", opt |-> o, n |-> n, cpus |-> c, out |-> <<>>,
      raised |-> FALSE, done |-> FALSE] :
        o \in {"value"}, n \in ThreadArgs, c \in CpuChoices}
    \cup
    {[fn |-> "pool", opt |-> o, n |-> 0, cpus |-> c, out |-> <<>>,
      raised |-> FALSE, done |-> FALSE] :
        o \in {"absent", "bare"}, c \in CpuChoices}

\* main: ThreadPoolExecutor(max_workers=max(1, min(64, args.threads)));
\* min(64, None) raises TypeError
MakePool ==
    /\ frag.fn = "pool"
    /\ ~frag.done
    /\ LET t == args_threads(frag.opt, frag.n, frag.cpus)
       IN frag' = IF t = <<>>
                  THEN [frag EXCEPT !.raised = TRUE, !.done = TRUE]
                  ELSE [frag EXCEPT !.out = <<max_workers(t[1])>>,
                                    !.done = TRUE]
    /\ UNCHANGED pipeVars

\* ---- CodeBlockFix: compound names

(* A code block is a sequence of sibling <span>s, each with one class and  *)
(* a string.  A string is a sequence of atoms: "::" or a letter, so that   *)
(* joining strings is concatenation and <<"a", "b">> is the identifier ab. *)
(* The blocks hold no comment, literal suffix, macro or keyword, so that   *)
(* a pass changes them through __colourize_compound_def only.              *)
Sep == "::"
Letters == {"a", "b", "C", "V"}

Front(q) == SubSeq(q, 1, Len(q) - 1)

IsIdent(s) == s # <<>> /\ \A k \in DOMAIN s : s[k] \in Letters

\* CodeBlockFix.__ns_token_expr.fullmatch
ns_token_expr(s) ==
    \/ s = <<Sep>>
    \/ IsIdent(s)
    \/ Len(s) >= 2 /\ s[1] = Sep /\ IsIdent(Tail(s))
    \/ Len(s) >= 2 /\ s[Len(s)] = Sep /\ IsIdent(Front(s))

\* CodeBlockFix.__ns_full_expr.fullmatch: (::)? id (:: id)* (::)?
ns_full_expr(s) ==
    LET a == IF s # <<>> /\ s[1] = Sep THEN Tail(s) ELSE s
        b == IF a # <<>> /\ a[Len(a)] = Sep THEN Front(a) ELSE a
    IN /\ b # <<>>
       /\ b[1] # Sep /\ b[Len(b)] # Sep
       /\ \A k \in 1..(Len(b) - 1) : ~(b[k] = Sep /\ b[k + 1] = Sep)

\* flatten_into_compiled_regex(...).fullmatch: one of the alternatives (the
\* empty pattern for an empty set) between the optional "::"
fullmatch(alts, pre, suf, s) ==
    \E alt \in (IF alts = {} THEN {<<>>} ELSE alts) :
        \/ s = alt
        \/ pre /\ s = <<Sep>> \o alt
        \/ suf /\ s = alt \o <<Sep>>
        \/ pre /\ suf /\ s = <<Sep>> \o alt \o <<Sep>>

enums_fullmatch(sym, s) == fullmatch(sym.enums, TRUE, FALSE, s)
types_fullmatch(sym, s) == fullmatch(sym.types, TRUE, TRUE, s)
namespaces_fullmatch(sym, s) == fullmatch(sym.namespaces, TRUE, TRUE, s)

Span(cls, s) == [cls |-> cls, s |-> s]

\* a span that was decomposed, until smooth() drops it
Gone == Span("", <<>>)

\* ''.join([tag.get_text() for tag in tags]); tags are positions in blk
RECURSIVE full_str(_, _)
full_str(blk, tags) ==
    IF tags = <<>> THEN <<>>
    ELSE blk[tags[1]].s \o full_str(blk, Tail(tags))

\* while tags and tags[-1].string == '::': del tags[-1]
RECURSIVE DropSeps(_, _)
DropSeps(blk, tags) ==
    IF tags # <<>> /\ blk[tags[Len(tags)]].s = <<Sep>>
    THEN DropSeps(blk, Front(tags))
    ELSE tags

\* the while loop of __colourize_compound_def: the tags that are left when
\* it ends
RECURSIVE NsPrefix(_, _, _)
NsPrefix(sym, blk, tags) ==
    IF tags = <<>> THEN <<>>
    ELSE IF namespaces_fullmatch(sym, full_str(blk, tags)) THEN tags
    ELSE NsPrefix(sym, blk, DropSeps(blk, Front(tags)))

html_set_class(blk, i, cls) == [blk EXCEPT ![i].cls = cls]

\* the tail of __colourize_compound_def with the first tag always made ns
MergeNs_always(blk, tags) ==
    [i \in DOMAIN blk |->
        IF i = tags[1] THEN Span("ns", full_str(blk, tags))
        ELSE IF \E k \in 2..Len(tags) : tags[k] = i THEN Gone
        ELSE blk[i]]

\* the tail of __colourize_compound_def: the tags after the first are
\* decomposed, the first takes the joined string, and class ns when
\* html_remove_class took n, nl or kt from it
MergeNs(blk, tags) ==
    [i \in DOMAIN blk |->
        IF i = tags[1]
        THEN Span(IF blk[i].cls \in {"n", "nl", "kt"} THEN "ns" ELSE blk[i].cls,
                  full_str(blk, tags))
        ELSE IF \E k \in 2..Len(tags) : tags[k] = i THEN Gone
        ELSE blk[i]]

\* CodeBlockFix.__colourize_compound_def
RECURSIVE colourize_compound_def(_, _, _)
colourize_compound_def(sym, blk, tags) ==
    LET full == full_str(blk, tags)
        last == tags[Len(tags)]
        rest == DropSeps(blk, Front(tags))
        keep == NsPrefix(sym, blk, tags)
    IN IF enums_fullmatch(sym, full)
       THEN [blk |-> IF rest # <<>>
                     THEN colourize_compound_def(sym,
                              html_set_class(blk, last, "ne"), rest).blk
                     ELSE html_set_class(blk, last, "ne"),
             ret |-> TRUE]
       ELSE IF types_fullmatch(sym, full)
       THEN [blk |-> IF rest # <<>>
                     THEN colourize_compound_def(sym,
                              html_set_class(blk, last, "ut"), rest).blk
                     ELSE html_set_class(blk, last, "ut"),
             ret |-> TRUE]
       ELSE IF keep # <<>>
       THEN [blk |-> MergeNs(blk, keep), ret |-> TRUE]
       ELSE [blk |-> blk, ret |-> FALSE]

\* a sibling the glomming loops of CodeBlockFix.__call__ step onto
Glomable(sp) ==
    /\ sp.s # <<>>
    /\ sp.cls \in {"n", "nl", "kt", "o"}
    /\ ns_token_expr(sp.s)

RECURSIVE LeftEnd(_, _)
LeftEnd(blk, i) ==
    IF i > 1 /\ Glomable(blk[i - 1]) THEN LeftEnd(blk, i - 1) ELSE i

RECURSIVE RightEnd(_, _)
RightEnd(blk, i) ==
    IF i < Len(blk) /\ Glomable(blk[i + 1]) THEN RightEnd(blk, i + 1) ELSE i

\* while tags and tags[0].string == '::': del tags[0]
RECURSIVE DropLeadingSeps(_, _)
DropLeadingSeps(blk, tags) ==
    IF tags # <<>> /\ blk[tags[1]].s = <<Sep>>
    THEN DropLeadingSeps(blk, Tail(tags))
    ELSE tags

\* CodeBlockFix.__call__: compound_names, collected from the span at
\* position i on, `seen` being compound_name_evaluated_tags
RECURSIVE compound_names(_, _, _)
compound_names(blk, i, seen) ==
    IF i > Len(blk) THEN <<>>
    ELSE IF blk[i].cls \in {"n", "nl", "kt"} /\ blk[i].s # <<>> /\ i \notin seen
    THEN LET l == LeftEnd(blk, i)
             r == RightEnd(blk, i)
             tags == [k \in 1..(r - l + 1) |-> l + k - 1]
             cut == DropSeps(blk, DropLeadingSeps(blk, tags))
         IN (IF ns_full_expr(full_str(blk, tags)) /\ cut # <<>>
             THEN <<cut>> ELSE <<>>)
            \o compound_names(blk, i + 1, seen \cup (l..r))
    ELSE compound_names(blk, i + 1, seen)

\* CodeBlockFix.__call__: for tags in compound_names: if
\* __colourize_compound_def(tags): changed_this_block = True
RECURSIVE ColourizeAll(_, _, _)
ColourizeAll(sym, blk, names) ==
    IF names = <<>> THEN [blk |-> blk, ret |-> FALSE]
    ELSE LET one == colourize_compound_def(sym, blk, names[1])
             more == ColourizeAll(sym, one.blk, Tail(names))
         IN [blk |-> more.blk, ret |-> one.ret \/ more.ret]

\* the block without its decomposed spans
RECURSIVE Smooth(_)
Smooth(blk) ==
    IF blk = <<>> THEN <<>>
    ELSE IF blk[1] = Gone THEN Smooth(Tail(blk))
    ELSE <<blk[1]>> \o Smooth(Tail(blk))

\* one pass of the first while loop of CodeBlockFix.__call__ over a block
CodeBlockPass(sym, blk) ==
    LET r == ColourizeAll(sym, blk, compound_names(blk, 1, {}))
    IN [blk |-> Smooth(r.blk), ret |-> r.ret]

nA == <<"a">>
nAB == <<"a", Sep, "b">>
nABC == <<"a", Sep, "b", Sep, "C">>
nABCV == <<"a", Sep, "b", Sep, "C", Sep, "V">>

\* the token run a::b::C::V as the highlighter emits it
RunABCV ==
    <<Span("n", <<"a">>), Span("o", <<Sep>>), Span("n", <<"b">>),
      Span("o", <<Sep>>), Span("n", <<"C">>), Span("o", <<Sep>>),
      Span("n", <<"V">>)>>

\* the longest run of spans drawn exhaustively
MaxRun == 2

ShortSpans == {Span(c, t) : c \in {"n", "o"}, t \in {<<"a">>, <<"b">>, <<Sep>>}}

ShortRuns == UNION {[1..n -> ShortSpans] : n \in 1..MaxRun}

\* the contents of _namespaces, _types and _enums when they are compiled
CodeSyms ==
    [namespaces : SUBSET {nA, nAB}, types : SUBSET {nAB, nABC},
     enums : SUBSET {nABCV}]

CodeFrags ==
    {[fn |-> "code", sym |-> y, run |-> r, block |-> r, changed |-> TRUE,
      seen |-> {}, again |-> FALSE, done |-> FALSE] :
        y \in CodeSyms, r \in ShortRuns \cup {RunABCV}}

\* CodeBlockFix.__call__: while changed_this_pass: one pass.  seen holds
\* the blocks the earlier passes started from; again says that a pass which
\* reported a change has left a block one of them started from
CodePass ==
    /\ frag.fn = "code"
    /\ ~frag.done
    /\ frag.changed
    /\ LET r == CodeBlockPass(frag.sym, frag.block)
       IN frag' = [frag EXCEPT
                      !.block = r.blk, !.changed = r.ret,
                      !.seen = @ \cup {frag.block},
                      !.again = r.ret /\ r.blk \in (frag.seen \cup {frag.block}),
                      !.done = ~r.ret]
    /\ UNCHANGED pipeVars

\* ---- DeadLinksFix: one anchor

(* An anchor is its parent's tag name and id ("" for none), its classes,   *)
(* its href and whether anchor.string is a string.  An href is absent      *)
(* ("none"), external, a fragment of the page itself ("self"), or          *)
(* file.html with an optional #fragment ("local").                         *)
Href(kind, file, fragment) == [kind |-> kind, file |-> file, fragment |-> fragment]

Hrefs ==
    {Href("none", "", ""), Href("ext", "", ""), Href("self", "", "frag")}
    \cup {Href("local", f, g) : f \in {"gone.html", "here.html"},
                                g \in {"", "frag"}}

Anchors ==
    [parent : {"dt", "div", "p", "li"}, pid : {"", "pid"},
     cls : SUBSET {"m-doc", "m-flat"}, href : Hrefs, str : BOOLEAN]

\* os.path.exists(os.path.join(dir, match[1]))
path_exists(file) == file = "here.html"

\* multi_sha256: its first statement after the assert is
\* h = hashlib.sha256(), and the module does not import hashlib: NameError
multi_sha256(file, text) == [raised |-> TRUE, hex |-> ""]

\* DeadLinksFix.__call__, the body of its loop for one anchor
DeadLinksFixAnchor(a) ==
    IF a.href.kind = "none"
    THEN [a |-> a, changed |-> FALSE, raised |-> "KeyError"]
    ELSE IF ~(a.href.kind = "local" /\ ~path_exists(a.href.file))
    THEN [a |-> a, changed |-> FALSE, raised |-> ""]
    ELSE LET b == [a EXCEPT !.cls = @ \ {"m-doc"}]
         IN IF b.parent \notin {"dt", "div"}
            THEN [a |-> b, changed |-> TRUE, raised |-> ""]
            ELSE LET c == [b EXCEPT !.cls = @ \cup {"m-doc-self"}]
                 IN IF c.pid # ""
                    THEN [a |-> [c EXCEPT !.href = Href("self", "", c.pid)],
                          changed |-> TRUE, raised |-> ""]
                    ELSE IF c.href.fragment # ""
                    THEN [a |-> [c EXCEPT !.pid = c.href.fragment,
                                          !.href = Href("self", "", c.href.fragment)],
                          changed |-> TRUE, raised |-> ""]
                    ELSE LET h == multi_sha256(c.href.file, c.str)
                         IN IF h.raised
                            THEN [a |-> c, changed |-> FALSE,
                                  raised |-> "NameError"]
                            ELSE [a |-> [c EXCEPT !.pid = h.hex,
                                                  !.href = Href("self", "", h.hex)],
                                  changed |-> TRUE, raised |-> ""]

DeadFrags ==
    {[fn |-> "dead", in |-> a, a |-> a, changed |-> FALSE, raised |-> "",
      done |-> FALSE] : a \in Anchors}

DeadLink ==
    /\ frag.fn = "dead"
    /\ ~frag.done
    /\ LET r == DeadLinksFixAnchor(frag.in)
       IN frag' = [frag EXCEPT !.a = r.a, !.changed = r.changed,
                               !.raised = r.raised, !.done = TRUE]
    /\ UNCHANGED pipeVars

\* ---- AutoDocLinksFix: the strings of one container

(* The container is one of the allowed elements; inA says it lies inside   *)
(* an <a>.  Its strings are text nodes: the words of the string, the names *)
(* of the elements between the string and the container (outermost first)  *)
(* and, for the text of an anchor this fixer generated, the position of    *)
(* the pattern that generated it (0 otherwise).  The first loop of         *)
(* __call__, which re-targets existing m-doc anchors and wraps nothing, is *)
(* left out.                                                               *)
TextNode(text, path, by) == [text |-> text, path |-> path, by |-> by]

\* the auto-link table: what each expression matches, in table order
expressions == <<{"X"}, {"X", "Y"}>>

Texts ==
    {<<"X">>, <<"Y">>, <<"w">>, <<"X", "Y">>, <<"w", "X">>, <<"Y", "X">>,
     <<"X", "w", "Y">>}

\* the most strings a container starts with
MaxNodes == 2

AutoNodes == {TextNode(t, q, 0) : t \in Texts, q \in {<<>>, <<"a">>}}

\* a search for an enclosing hyperlink that finds one everywhere absent
outside_anchor_any(path) == TRUE

\* html_find_parent(t, 'a', cutoff) is None, path being the elements
\* between t and the cutoff
outside_anchor(path) == \A k \in DOMAIN path : path[k] # "a"

\* regex.sub with __substitute over the string, parsed back by
\* html_replace_tag: the unmatched runs stay strings, each match becomes
\* the text of a new <a>
RECURSIVE Pieces(_, _, _, _)
Pieces(text, e, path, acc) ==
    LET flush == IF acc = <<>> THEN <<>> ELSE <<TextNode(acc, path, 0)>>
    IN IF text = <<>> THEN flush
       ELSE IF text[1] \in expressions[e]
       THEN flush \o <<TextNode(<<text[1]>>, path \o <<"a">>, e)>>
                  \o Pieces(Tail(text), e, path, <<>>)
       ELSE Pieces(Tail(text), e, path, Append(acc, text[1]))

\* the positions of the nodes that html_string_descendants keeps
RECURSIVE Kept(_, _, _)
Kept(nodes, from, base) ==
    IF nodes = <<>> THEN <<>>
    ELSE (IF outside_anchor(SubSeq(nodes[1].path, base + 1, Len(nodes[1].path)))
          THEN <<from>> ELSE <<>>)
         \o Kept(Tail(nodes), from + 1, base)

\* html5lib never puts an <a> inside an <a>: a container inside a
\* hyperlink has no hyperlink of its own
AutoInputs ==
    {c \in [inA : BOOLEAN,
            in : UNION {[1..k -> AutoNodes] : k \in 1..MaxNodes}] :
        c.inA => \A k \in DOMAIN c.in : c.in[k].path = <<>>}

\* html_shallow_search keeps the container when it is outside every <a>;
\* html_string_descendants then keeps its strings that are
AutoFrags ==
    {[fn |-> "auto", inA |-> c.inA, in |-> c.in, nodes |-> c.in,
      strings |-> IF outside_anchor(IF c.inA THEN <<"a">> ELSE <<>>)
                  THEN Kept(c.in, 1, 0) ELSE <<>>,
      e |-> 1, i |-> 1, done |-> FALSE] : c \in AutoInputs}

\* AutoDocLinksFix.__call__: one turn of `while i < len(strings)` for the
\* expression at position e, or the step to the next expression
AutoScan ==
    /\ frag.fn = "auto"
    /\ ~frag.done
    /\ IF frag.e > Len(expressions)
       THEN frag' = [frag EXCEPT !.done = TRUE]
       ELSE IF frag.i > Len(frag.strings)
       THEN frag' = [frag EXCEPT !.e = @ + 1, !.i = 1]
       ELSE LET j == frag.strings[frag.i]
                node == frag.nodes[j]
                new == Pieces(node.text, frag.e, node.path, <<>>)
                grow == Len(new) - 1
                others == [k \in 1..(Len(frag.strings) - 1) |->
                             LET o == frag.strings[IF k < frag.i THEN k ELSE k + 1]
                             IN IF o > j THEN o + grow ELSE o]
            IN IF \E k \in DOMAIN node.text : node.text[k] \in expressions[frag.e]
               THEN frag' = [frag EXCEPT
                       !.nodes = SubSeq(@, 1, j - 1) \o new
                                 \o SubSeq(@, j + 1, Len(@)),
                       !.strings = others \o Kept(new, j, Len(node.path))]
               ELSE frag' = [frag EXCEPT !.i = @ + 1]
    /\ UNCHANGED pipeVars

\* ---- CustomTagsFix: one shortcode

(* Text is a sequence of characters; a name that holds a character which   *)
(* is no hexadecimal digit, such as "ice_cream", stands as one character.  *)
UpperDigits ==
    <<"0", "1", "2", "3", "4", "5", "6", "7", "8", "9",
      "A", "B", "C", "D", "E", "F">>
LowerDigits ==
    <<"0", "1", "2", "3", "4", "5", "6", "7", "8", "9",
      "a", "b", "c", "d", "e", "f">>

\* the value of a digit, or 16 for any other character
DigitVal(c) ==
    IF \E i \in 1..16 : UpperDigits[i] = c \/ LowerDigits[i] = c
    THEN (CHOOSE i \in 1..16 : UpperDigits[i] = c \/ LowerDigits[i] = c) - 1
    ELSE 16

RECURSIVE DigitsValue(_, _)
DigitsValue(digits, base) ==
    IF digits = <<>> THEN 0
    ELSE DigitsValue(Front(digits), base) * base
         + DigitVal(digits[Len(digits)])

\* int(text, base): <<value>>, or <<>> for ValueError
int(text, base) ==
    LET signed == text # <<>> /\ text[1] \in {"-", "+"}
        digits == IF signed THEN Tail(text) ELSE text
    IN IF digits = <<>> \/ \E k \in DOMAIN digits : DigitVal(digits[k]) >= base
       THEN <<>>
       ELSE <<(IF signed /\ text[1] = "-" THEN 0 - 1 ELSE 1)
              * DigitsValue(digits, base)>>

\* f'{cp:X}'
RECURSIVE FormatX(_)
FormatX(n) ==
    IF n < 0 THEN <<"-">> \o FormatX(0 - n)
    ELSE IF n < 16 THEN <<UpperDigits[n + 1]>>
    ELSE FormatX(n \div 16) \o <<UpperDigits[(n % 16) + 1]>>

\* str.lower()
lower(text) ==
    [k \in DOMAIN text |->
        IF \E i \in 11..16 : UpperDigits[i] = text[k]
        THEN LowerDigits[CHOOSE i \in 11..16 : UpperDigits[i] = text[k]]
        ELSE IF text[k] = "ICE_CREAM" THEN "ice_cream"
        ELSE text[k]]

\* the entity branch: 0x10FFFF
MaxCodePoint == 1114111

\* emojis_v2.json as fetched: key and the hexadecimal name of the image in
\* its uri (none when the uri is not of the form .../unicode/<hex>.png)
RawEmojis ==
    {[key |-> <<"ice_cream">>, hex |-> <<"1", "f", "3", "6", "8">>],
     [key |-> <<"information_source">>, hex |-> <<"2", "1", "3", "9">>],
     [key |-> <<"octocat">>, hex |-> <<>>]}

\* the aliases list of __single_tags_substitute
aliases ==
    {[alias |-> <<"sundae">>, key |-> <<"ice_cream">>],
     [alias |-> <<"info">>, key |-> <<"information_source">>]}

\* cls.__emoji_codepoints once the table is built
emoji_codepoints == {int(e.hex, 16)[1] : e \in {r \in RawEmojis : r.hex # <<>>}}

\* cls.__emojis once the table is built by one thread: the entries
\* [cp, uri], the aliases, '__codepoints' and '__processed'
emoji_table ==
    {[key |-> e.key, kind |-> "entry", cp |-> int(e.hex, 16)[1]] :
        e \in {r \in RawEmojis : r.hex # <<>>}}
    \cup
    {[key |-> a.alias, kind |-> "entry",
      cp |-> int((CHOOSE r \in RawEmojis : r.key = a.key).hex, 16)[1]] :
        a \in aliases}
    \cup
    {[key |-> <<"__codepoints">>, kind |-> "list",
      cp |-> CHOOSE c \in emoji_codepoints : TRUE],
     [key |-> <<"__processed">>, kind |-> "bool", cp |-> 0]}

Expansion(out, raised) == [out |-> out, raised |-> raised]

NumericRef(cp) == <<"&#x">> \o FormatX(cp) \o <<";">>

EmojiRef(cp) == NumericRef(cp) \o <<"&#xFE0F;">>

\* __single_tags_substitute, the branch for entity and htmlentity
entity_substitute(content) ==
    IF content = <<>> THEN Expansion(<<>>, FALSE)
    ELSE LET cp == int(content, 16)
         IN IF cp # <<>> /\ cp[1] <= MaxCodePoint
            THEN Expansion(NumericRef(cp[1]), FALSE)
            ELSE Expansion(<<"&">> \o content \o <<";">>, FALSE)

\* __single_tags_substitute, the branch for emoji, with the table built:
\* x[0] of a table value is the code point of an entry, the first element
\* of the '__codepoints' list, and a TypeError for True
emoji_substitute(content) ==
    LET c == lower(content)
        hex == int(c, 16)
        dec == int(c, 10)
    IN IF c = <<>> THEN Expansion(<<>>, FALSE)
       ELSE IF hex # <<>> /\ hex[1] \in emoji_codepoints
       THEN Expansion(EmojiRef(hex[1]), FALSE)
       ELSE IF dec # <<>> /\ dec[1] \in emoji_codepoints
       THEN Expansion(EmojiRef(dec[1]), FALSE)
       ELSE IF \E e \in emoji_table : e.key = c
       THEN LET e == CHOOSE x \in emoji_table : x.key = c
            IN IF e.kind = "bool" THEN Expansion(<<>>, TRUE)
               ELSE Expansion(EmojiRef(e.cp), FALSE)
       ELSE Expansion(<<>>, FALSE)

single_tags_substitute(tag_name, content) ==
    IF tag_name = "entity" THEN entity_substitute(content)
    ELSE emoji_substitute(content)

\* CustomTagsFix.__allowed_parents
allowed_parents ==
    {"dd", "p", "h1", "h2", "h3", "h4", "h5", "h6", "li", "aside", "td"}

\* the elements around a shortcode, from the child of the article inwards
MaxDepth == 3

Paths == UNION {[1..n -> {"p", "a", "div", "li"}] : n \in 1..MaxDepth}

\* CustomTagsFix.__call__: the shortcode is in str(tag) of a tag that has
\* an allowed name and no <a> above it
Expands(path) ==
    \E k \in DOMAIN path :
        /\ path[k] \in allowed_parents
        /\ outside_anchor(SubSeq(path, 1, k - 1))

EntityPayloads ==
    {<<>>, <<"0">>, <<"4", "8">>, <<"1", "0", "F", "F", "F", "F">>,
     <<"1", "1", "0", "0", "0", "0">>, <<"b", "a", "d">>, <<"amp">>,
     <<"-", "1">>}

EmojiPayloads ==
    {<<>>, <<"1", "f", "3", "6", "8">>, <<"1", "F", "3", "6", "8">>,
     <<"1", "2", "7", "8", "4", "8">>, <<"f", "f">>, <<"ice_cream">>,
     <<"ICE_CREAM">>, <<"sundae">>, <<"info">>, <<"octocat">>, <<"nosuch">>,
     <<"__codepoints">>, <<"__processed">>}

TagsFrags ==
    {[fn |-> "tags", path |-> q, tag |-> "entity", content |-> <<"4", "8">>,
      out |-> <<>>, raised |-> FALSE, expanded |-> FALSE, done |-> FALSE] :
        q \in Paths}
    \cup
    {[fn |-> "tags", path |-> <<"p">>, tag |-> "entity", content |-> c,
      out |-> <<>>, raised |-> FALSE, expanded |-> FALSE, done |-> FALSE] :
        c \in EntityPayloads}
    \cup
    {[fn |-> "tags", path |-> <<"p">>, tag |-> "emoji", content |-> c,
      out |-> <<>>, raised |-> FALSE, expanded |-> FALSE, done |-> FALSE] :
        c \in EmojiPayloads}

\* CustomTagsFix.__call__ over the one shortcode of the article
TagsExpand ==
    /\ frag.fn = "tags"
    /\ ~frag.done
    /\ IF Expands(frag.path)
       THEN LET r == single_tags_substitute(frag.tag, frag.content)
            IN frag' = [frag EXCEPT !.out = r.out, !.raised = r.raised,
                                    !.expanded = ~r.raised, !.done = TRUE]
       ELSE frag' = [frag EXCEPT !.done = TRUE]
    /\ UNCHANGED pipeVars

\* ---- ModifiersFix1 and ModifiersFix2: one signature

\* ModifiersFixBase._modifierRegex, the words it matches
Modifiers ==
    {"defaulted", "noexcept", "constexpr", "pure virtual", "virtual",
     "protected", "__vectorcall", "__stdcall", "__fastcall", "__cdecl"}

(* The serialisation of a tag is a sequence of tokens: " " is one          *)
(* whitespace character, a modifier is one token, "w" any other text, and  *)
(* an injected badge is the three tokens "<span>", modifier, "</span>".    *)
MaxText == 5

SignatureTokens == {" ", "constexpr", "noexcept", "w"}

Signatures == UNION {[1..n -> SignatureTokens] : n \in 1..MaxText}

\* the last index of the whitespace run that starts at i
RECURSIVE SpaceEnd(_, _)
SpaceEnd(text, i) ==
    IF i < Len(text) /\ text[i + 1] = " " THEN SpaceEnd(text, i + 1) ELSE i

\* whether \s+(modifier)\s+ matches at i
Matches(text, i) ==
    /\ text[i] = " "
    /\ LET j == SpaceEnd(text, i)
       IN /\ j + 2 <= Len(text)
          /\ text[j + 1] \in Modifiers
          /\ text[j + 2] = " "

\* ModifiersFix1.__expression.sub(__substitute, text) from i on: the
\* matches are found left to right and do not overlap
RECURSIVE Sub1(_, _)
Sub1(text, i) ==
    IF i > Len(text) THEN <<>>
    ELSE IF Matches(text, i)
    THEN LET j == SpaceEnd(text, i)
             e == SpaceEnd(text, j + 2)
         IN SubSeq(text, i, j) \o <<"<span>", text[j + 1], "</span>">>
            \o SubSeq(text, j + 2, e) \o Sub1(text, e + 1)
    ELSE <<text[i]>> \o Sub1(text, i + 1)

\* ModifiersFix2.__expression.sub(__substitute, text) from i on: the text
\* left in the bumper and the matches collected
RECURSIVE Sub2(_, _)
Sub2(text, i) ==
    IF i > Len(text) THEN [text |-> <<>>, matches |-> <<>>]
    ELSE IF Matches(text, i)
    THEN LET j == SpaceEnd(text, i)
             e == SpaceEnd(text, j + 2)
             r == Sub2(text, e + 1)
         IN [text |-> <<" ">> \o r.text,
             matches |-> <<text[j + 1]>> \o r.matches]
    ELSE LET r == Sub2(text, i + 1)
         IN [text |-> <<text[i]>> \o r.text, matches |-> r.matches]

\* HTMLDocument.find_all_from_sections: whether the top-level section
\* with this id is searched, for the argument section (None when absent)
find_all_from_sections(id, section) ==
    IF section # "None" THEN id = "section" ELSE TRUE

\* ModifiersFix1.__sections
Fix1Sections == <<"pub-static-methods", "pub-methods", "friends", "func-members">>

\* ModifiersFix1.__call__ on the row of a section with this id: one
\* substitution for every name of __sections that finds the row
RECURSIVE ModifiersFix1Row(_, _, _)
ModifiersFix1Row(id, text, k) ==
    IF k > Len(Fix1Sections) THEN text
    ELSE ModifiersFix1Row(id,
            IF find_all_from_sections(id, Fix1Sections[k])
            THEN Sub1(text, 1) ELSE text,
            k + 1)

\* ModifiersFix2.__call__ on the bumper of a signature of the section
\* 'Function documentation' with this id
ModifiersFix2Bumper(id, text) ==
    IF find_all_from_sections(id, "False")
    THEN Sub2(text, 1)
    ELSE [text |-> text, matches |-> <<>>]

\* the ids of the sections m.css gives the rows and the signatures, and
\* the id the lookup asks for
ModFrags ==
    {[fn |-> "mods", fixer |-> 1, id |-> i, text |-> t, matches |-> <<>>,
      done |-> FALSE] :
        i \in {"pub-methods", "section"}, t \in Signatures}
    \cup
    {[fn |-> "mods", fixer |-> 2, id |-> i, text |-> t, matches |-> <<>>,
      done |-> FALSE] :
        i \in {"", "section"}, t \in Signatures}

ModifiersRun ==
    /\ frag.fn = "mods"
    /\ ~frag.done
    /\ IF frag.fixer = 1
       THEN frag' = [frag EXCEPT
                        !.text = ModifiersFix1Row(frag.id, frag.text, 1),
                        !.done = TRUE]
       ELSE LET r == ModifiersFix2Bumper(frag.id, frag.text)
            IN frag' = [frag EXCEPT !.text = r.text,
                                    !.matches = r.matches, !.done = TRUE]
    /\ UNCHANGED pipeVars

\* ---- ModifiersFix2: the badges put back at the end of a signature

MaxMods == 3

\* the modifiers of a bumper, left to right
ModifierRuns ==
    UNION {[1..n -> {"constexpr", "noexcept", "virtual"}] : n \in 0..MaxMods}

\* a bumper text with every modifier between whitespace of its own
RECURSIVE Spread(_)
Spread(ms) ==
    IF ms = <<>> THEN <<"w">>
    ELSE <<"w", " ", ms[1], " ">> \o Spread(Tail(ms))

Node(kind, text) == [kind |-> kind, text |-> text]

\* the last child of span.m-doc-wrap: a tag with these children (text,
\* or a span that was there before), or a string
Ends ==
    {[tag |-> TRUE, contents |-> c] :
        c \in {<<>>, <<Node("text", "w")>>, <<Node("span", "old")>>,
               <<Node("text", "w"), Node("span", "old"), Node("text", "w")>>}}
    \cup {[tag |-> FALSE, contents |-> <<Node("text", "w")>>]}

\* end.find('span'): the index of the first span of a tag, 0 for None
FindSpan(contents) ==
    IF \E i \in DOMAIN contents : contents[i].kind # "text"
    THEN CHOOSE i \in DOMAIN contents :
            /\ contents[i].kind # "text"
            /\ \A j \in 1..(i - 1) : contents[j].kind = "text"
    ELSE 0

InsertAt(q, i, x) == SubSeq(q, 1, i - 1) \o <<x>> \o SubSeq(q, i, Len(q))

\* HTMLDocument.new_tag(parent=end, before=lastInserted) followed by
\* lastInserted.insert_after(' '), for every match from k on;
\* last is the index of lastInserted, 0 for None
RECURSIVE InsertBadges(_, _, _, _)
InsertBadges(matches, k, contents, last) ==
    IF k > Len(matches) THEN contents
    ELSE LET pos == IF last # 0 THEN last ELSE Len(contents) + 1
             withTag == InsertAt(contents, pos, Node("badge", matches[k]))
             withGap == InsertAt(withTag, pos + 1, Node("text", " "))
         IN InsertBadges(matches, k + 1, withGap, pos)

\* ModifiersFix2.__call__ on one signature: on a string end.find is
\* str.find, its result -1 is not None, and -1 has no insert_before
ModifiersFix2Signature(text, end) ==
    LET r == Sub2(text, 1)
    IN IF r.matches = <<>>
       THEN [bumper |-> text, end |-> end.contents, raised |-> FALSE,
             changed |-> FALSE]
       ELSE IF ~end.tag
       THEN [bumper |-> r.text, end |-> end.contents, raised |-> TRUE,
             changed |-> FALSE]
       ELSE [bumper |-> r.text,
             end |-> InsertBadges(r.matches, 1, end.contents,
                                  FindSpan(end.contents)),
             raised |-> FALSE, changed |-> TRUE]

BadgeFrags ==
    {[fn |-> "badges", mods |-> ms, text |-> Spread(ms), end |-> e,
      out |-> <<>>, raised |-> FALSE, done |-> FALSE] :
        ms \in ModifierRuns, e \in Ends}

BadgesRun ==
    /\ frag.fn = "badges"
    /\ ~frag.done
    /\ LET r == ModifiersFix2Signature(frag.text, frag.end)
       IN frag' = [frag EXCEPT !.text = r.bumper, !.out = r.end,
                               !.raised = r.raised, !.done = TRUE]
    /\ UNCHANGED pipeVars

\* ---- TemplateTemplateFix: one div.m-doc-template

(* The serialisation of the div is a sequence of tokens: "T<" is           *)
(* template&lt;, ">" is &gt;, "X" a parameter list, " " and "\n" are       *)
(* whitespace characters, "<br>" is the line break tag.                    *)
MaxDecls == 3

IsSpace(c) == c \in {" ", "\n"}

\* n declarations, gaps[k] whitespace characters after the k-th of them
RECURSIVE Declarations(_, _)
Declarations(n, gaps) ==
    IF n = 0 THEN <<>>
    ELSE Declarations(n - 1, gaps) \o <<"T<", "X", ">">>
         \o [k \in 1..gaps[n] |-> " "]

TemplateTexts ==
    UNION {{Declarations(n, g) : g \in [1..n -> 1..2]} : n \in 1..MaxDecls}

\* the last index of the whitespace run that starts at i
RECURSIVE RunEnd(_, _)
RunEnd(text, i) ==
    IF i < Len(text) /\ IsSpace(text[i + 1]) THEN RunEnd(text, i + 1) ELSE i

\* (template&lt;.+?&gt;)\s+(template&lt;) with group 1 from i to j
ClosesAt(text, i, j) ==
    /\ j >= i + 2
    /\ j + 2 <= Len(text)
    /\ text[j] = ">"
    /\ IsSpace(text[j + 1])
    /\ RunEnd(text, j + 1) < Len(text)
    /\ text[RunEnd(text, j + 1) + 1] = "T<"

TemplateMatches(text, i) ==
    /\ text[i] = "T<"
    /\ \E j \in DOMAIN text : ClosesAt(text, i, j)

\* TemplateTemplateFix.__expression.sub(__substitute, text) from i on
RECURSIVE template_sub(_, _)
template_sub(text, i) ==
    IF i > Len(text) THEN <<>>
    ELSE IF TemplateMatches(text, i)
    THEN LET j == CHOOSE x \in DOMAIN text :
                    /\ ClosesAt(text, i, x)
                    /\ \A y \in i..(x - 1) : ~ClosesAt(text, i, y)
             e == RunEnd(text, j + 1)
         IN SubSeq(text, i, j) \o <<"<br>", "\n", "T<">>
            \o template_sub(text, e + 2)
    ELSE <<text[i]>> \o template_sub(text, i + 1)

TemplateFrags ==
    {[fn |-> "template", first |-> t, text |-> t, runs |-> 0,
      changed |-> FALSE, done |-> FALSE] : t \in TemplateTexts}

\* TemplateTemplateFix.__call__, in a first and in a second run of the tool
TemplateRun ==
    /\ frag.fn = "template"
    /\ ~frag.done
    /\ LET out == template_sub(frag.text, 1)
       IN frag' = [frag EXCEPT !.text = out, !.runs = @ + 1,
                               !.changed = (out # frag.text),
                               !.done = (frag.runs = 1)]
    /\ UNCHANGED pipeVars

\* ---- CodeBlockFix: c-style multi-line comments

(* The children of a code block, as for the compound names; a child of     *)
(* class "text" is a string between the spans.  The atoms "/!*" and "*!/"  *)
(* are the markers doxygen leaves, "/*" and "*/" the comment delimiters.   *)
MaxBlock == 5

mlc_open_span == Span("o", <<"/!*">>)
mlc_close_span == Span("o", <<"*!/">>)

CommentNodes ==
    {mlc_open_span, mlc_close_span, Span("text", <<"h">>), Span("n", <<"a">>)}

CommentBlocks == UNION {[1..n -> CommentNodes] : n \in 1..MaxBlock}

\* find / find_next_sibling: the first position from i on that holds
\* the span, 0 for None
FirstFrom(blk, i, span) ==
    IF \E k \in i..Len(blk) : blk[k] = span
    THEN CHOOSE k \in i..Len(blk) :
            blk[k] = span /\ \A j \in i..(k - 1) : blk[j] # span
    ELSE 0

\* the texts of the siblings from position i to position j, joined
RECURSIVE JoinText(_, _, _)
JoinText(blk, i, j) ==
    IF i > j THEN <<>> ELSE blk[i].s \o JoinText(blk, i + 1, j)

\* the node mlc_open becomes, mlc_close being at position c, with the
\* markers left as they were
CommentNode_raw(blk, o, c) == Span("cm", JoinText(blk, o, c))

\* the node mlc_open becomes, mlc_close being at position c: the strings
\* of the two markers are set to '/*' and '*/' before the texts are joined
CommentNode(blk, o, c) ==
    Span("cm", <<"/*">> \o JoinText(blk, o + 1, c - 1) \o <<"*/">>)

\* the loop `while mlc_open is not None` with mlc_open at position o
\* (0 for None): the siblings after mlc_open up to mlc_close are destroyed
RECURSIVE Stitch(_, _)
Stitch(blk, o) ==
    IF o = 0 THEN [blk |-> blk, ret |-> FALSE]
    ELSE LET c == FirstFrom(blk, o + 1, mlc_close_span)
         IN IF c = 0 THEN [blk |-> blk, ret |-> FALSE]
            ELSE LET next == SubSeq(blk, 1, o - 1)
                             \o <<CommentNode(blk, o, c)>>
                             \o SubSeq(blk, c + 1, Len(blk))
                 IN [blk |-> Stitch(next,
                                FirstFrom(next, o + 1, mlc_open_span)).blk,
                     ret |-> TRUE]

\* the comment step of a pass over one block: changed_this_block
StitchComments(blk) == Stitch(blk, FirstFrom(blk, 1, mlc_open_span))

CommentFrags ==
    {[fn |-> "comment", first |-> b, block |-> b, changed |-> FALSE,
      done |-> FALSE] : b \in CommentBlocks}

CommentPass ==
    /\ frag.fn = "comment"
    /\ ~frag.done
    /\ LET r == StitchComments(frag.block)
       IN frag' = [frag EXCEPT !.block = r.blk, !.changed = r.ret,
                               !.done = TRUE]
    /\ UNCHANGED pipeVars

\* ---- preprocess_xml: the user-defined sections of one compound

(* A compound is its kind and its <sectiondef>s in document order.  A      *)
(* section is its kind, its <header> ("none" when it has no header         *)
(* element, "" when the element has no text) and its <memberdef>s, each    *)
(* named by the section and the place where it stood.                      *)
MaxSections == 3

Section(kind, header, members) ==
    [kind |-> kind, header |-> header, members |-> members]

\* the sections that can stand at place k of a compound
SectionsAt(k) ==
    {Section("user-defined", h, [m \in 1..n |-> <<k, m>>]) :
        h \in {"A", "B", "", "none"}, n \in 1..2}
    \cup {Section("func", "none", <<<<k, 1>>>>)}

RECURSIVE SectionLists(_)
SectionLists(n) ==
    IF n = 0 THEN {<<>>}
    ELSE {Append(q, x) : q \in SectionLists(n - 1), x \in SectionsAt(n)}

Compounds ==
    [kind : {"class", "union"},
     sections : UNION {SectionLists(n) : n \in 1..MaxSections}]

MergedKinds == {"namespace", "class", "struct", "enum", "file"}

\* sectiondefs, as places in the compound
sectiondefs(secs) == {i \in DOMAIN secs : secs[i].kind = "user-defined"}

\* the first loop: header.text of a missing header is an AttributeError,
\* sections[header.text] of a header without text a KeyError
MergeRaises(secs) ==
    \E i \in sectiondefs(secs) : secs[i].header \in {"none", ""}

\* sections[key] of the first loop: the places with this heading
vals(secs, key) == {i \in sectiondefs(secs) : secs[i].header = key}

first_section(secs, key) ==
    CHOOSE i \in vals(secs, key) : \A j \in vals(secs, key) : i <= j

\* the members of the sections of set `from` at places i and above, in
\* document order
RECURSIVE MembersFrom(_, _, _)
MembersFrom(secs, from, i) ==
    IF i > Len(secs) THEN <<>>
    ELSE (IF i \in from THEN secs[i].members ELSE <<>>)
         \o MembersFrom(secs, from, i + 1)

\* the members first_section is left with: its own only
MergedMembers_own(secs, key) == secs[first_section(secs, key)].members

\* the members first_section is left with: its own, then those of the
\* other sections of the key, appended section by section
MergedMembers(secs, key) ==
    secs[first_section(secs, key)].members
    \o MembersFrom(secs, vals(secs, key) \ {first_section(secs, key)}, 1)

\* the second loop, from place i on: the sections after the first of a
\* key are removed from the compound
RECURSIVE MergedFrom(_, _)
MergedFrom(secs, i) ==
    IF i > Len(secs) THEN <<>>
    ELSE IF i \notin sectiondefs(secs)
    THEN <<secs[i]>> \o MergedFrom(secs, i + 1)
    ELSE IF i = first_section(secs, secs[i].header)
    THEN <<[secs[i] EXCEPT !.members = MergedMembers(secs, secs[i].header)]>>
         \o MergedFrom(secs, i + 1)
    ELSE MergedFrom(secs, i + 1)

\* preprocess_xml: "merge user-defined sections with the same name"
merge_sections(compound) ==
    IF compound.kind \notin MergedKinds
    THEN [sections |-> compound.sections, raised |-> FALSE, changed |-> FALSE]
    ELSE IF MergeRaises(compound.sections)
    THEN [sections |-> compound.sections, raised |-> TRUE, changed |-> FALSE]
    ELSE LET out == MergedFrom(compound.sections, 1)
         IN [sections |-> out, raised |-> FALSE,
             changed |-> Len(out) < Len(compound.sections)]

XmlFrags ==
    {[fn |-> "xml", compound |-> c, sections |-> c.sections,
      raised |-> FALSE, changed |-> FALSE, done |-> FALSE] : c \in Compounds}

PreprocessCompound ==
    /\ frag.fn = "xml"
    /\ ~frag.done
    /\ LET r == merge_sections(frag.compound)
       IN frag' = [frag EXCEPT !.sections = r.sections, !.raised = r.raised,
                               !.changed = r.changed, !.done = TRUE]
    /\ UNCHANGED pipeVars

\* ---- CodeBlockFix.__colourize_compound_def on one compound name

\* the first k tokens of a::b::C::V, the first of them of class c
NameRun(c, k) ==
    [i \in 1..k |-> IF i = 1 THEN Span(c, RunABCV[1].s) ELSE RunABCV[i]]

\* the compound names __call__ collects: no "::" at either end
ClassifyRuns ==
    {NameRun(c, k) : c \in {"n", "nl", "kt", "o"}, k \in {1, 3, 5, 7}}
    \cup {r \in ShortRuns : r[1].s # <<Sep>> /\ r[Len(r)].s # <<Sep>>}

ClassifyFrags ==
    {[fn |-> "classify", sym |-> y, run |-> r, block |-> r, ret |-> FALSE,
      done |-> FALSE] : y \in CodeSyms, r \in ClassifyRuns}

\* __colourize_compound_def(tags), tags being the whole run
Classify ==
    /\ frag.fn = "classify"
    /\ ~frag.done
    /\ LET r == colourize_compound_def(frag.sym, frag.run,
                    [k \in 1..Len(frag.run) |-> k])
       IN frag' = [frag EXCEPT !.block = r.blk, !.ret = r.ret, !.done = TRUE]
    /\ UNCHANGED pipeVars

\* ---- AutoDocLinksFix: the repair of one existing m-doc link

\* the targets of the two expressions of the table: different, or the same
UriTables == {<<"u1", "u2">>, <<"u1", "u1">>}

\* the first loop of __call__ on one link, from the expression at e on:
\* the first expression whose uri is not the href and which matches the
\* whole text sets the href, and the loop breaks
RECURSIVE RepairLink(_, _, _, _)
RepairLink(uris, text, href, e) ==
    IF e > Len(expressions) THEN [href |-> href, changed |-> FALSE]
    ELSE IF href # uris[e] /\ text \in expressions[e]
    THEN [href |-> uris[e], changed |-> TRUE]
    ELSE RepairLink(uris, text, href, e + 1)

\* href "" is a link without href
RepairFrags ==
    {[fn |-> "repair", uris |-> u, text |-> t, href |-> h, runs |-> 0,
      changed |-> FALSE, done |-> FALSE] :
        u \in UriTables, t \in {"X", "Y", "w"}, h \in {"", "u1", "u2", "old"}}

\* the repair step, in a first and in a second run
RepairRun ==
    /\ frag.fn = "repair"
    /\ ~frag.done
    /\ LET r == RepairLink(frag.uris, frag.text, frag.href, 1)
       IN frag' = [frag EXCEPT !.href = r.href, !.changed = r.changed,
                               !.runs = @ + 1, !.done = (frag.runs = 1)]
    /\ UNCHANGED pipeVars

\* ---- HTMLDocument.find_all_from_sections: the sections it searches

\* the ids of the top-level sections of an article ("" for a section
\* without id), in document order
SectionIds ==
    UNION {[1..n -> {"pub-methods", "friends", "section", ""}] : n \in 1..2}

\* the places of the sections that are searched
SearchedSections(ids, section) ==
    {i \in DOMAIN ids : find_all_from_sections(ids[i], section)}

\* section is "None" when the argument is left out, "False" for False
LookupFrags ==
    {[fn |-> "lookup", ids |-> q, section |-> x, found |-> {},
      done |-> FALSE] :
        q \in SectionIds, x \in {"None", "False", "pub-methods", "friends"}}

Lookup ==
    /\ frag.fn = "lookup"
    /\ ~frag.done
    /\ frag' = [frag EXCEPT
                  !.found = SearchedSections(frag.ids, frag.section),
                  !.done = TRUE]
    /\ UNCHANGED pipeVars

\* ---- CodeBlockFix.__call__ and LinksFix.__call__: what they return

\* one turn of `for code_block in code_blocks` of the first loop: the
\* comments, then the compound names (the blocks hold no literal suffix,
\* macro or keyword)
BlockPass(sym, blk) ==
    LET c == StitchComments(blk)
        n == CodeBlockPass(sym, c.blk)
    IN [blk |-> n.blk, ret |-> c.ret \/ n.ret]

NoSyms == [namespaces |-> {}, types |-> {}, enums |-> {}]
AllSyms == [namespaces |-> {nAB}, types |-> {nABC}, enums |-> {nABCV}]

\* a page with one block of class m-code; inline says that the page also
\* holds a <code class="m-code"> inside a <p> inside a <div>
CallFrags ==
    {[fn |-> "call", sym |-> y, first |-> b, block |-> b, inline |-> i,
      moved |-> FALSE, phase |-> "first", changed_this_pass |-> TRUE,
      changed |-> FALSE, ret |-> FALSE, done |-> FALSE] :
        y \in {NoSyms, AllSyms},
        b \in {<<mlc_open_span, Span("text", <<"h">>), mlc_close_span>>,
               <<Span("text", <<"h">>)>>, RunABCV},
        i \in BOOLEAN}

\* CodeBlockFix.__call__: a pass of the first while loop; `changed = False`
\* before the second while loop; a pass of the second; return changed
CodeBlockFixCall ==
    /\ frag.fn = "call"
    /\ ~frag.done
    /\ CASE frag.phase = "first" /\ frag.changed_this_pass ->
              LET r == BlockPass(frag.sym, frag.block)
              IN frag' = [frag EXCEPT !.block = r.blk,
                                      !.changed_this_pass = r.ret,
                                      !.changed = @ \/ r.ret]
         [] frag.phase = "first" /\ ~frag.changed_this_pass ->
              frag' = [frag EXCEPT !.phase = "second", !.changed = FALSE,
                                   !.changed_this_pass = TRUE]
         [] frag.phase = "second" /\ frag.changed_this_pass ->
              frag' = [frag EXCEPT !.changed_this_pass = frag.inline,
                                   !.changed = @ \/ frag.inline,
                                   !.moved = @ \/ frag.inline,
                                   !.inline = FALSE]
         [] frag.phase = "second" /\ ~frag.changed_this_pass ->
              frag' = [frag EXCEPT !.ret = frag.changed, !.done = TRUE]
    /\ UNCHANGED pipeVars

\* an anchor for LinksFix: its href is absent, external, '#' + a hex id
\* the page has ("live") or has not ("dangling"), or something else
LinkAnchors ==
    [href : {"none", "external", "live", "dangling", "other"},
     cls : SUBSET {"m-doc", "dox-external"}, target : BOOLEAN]

\* LinksFix.__call__, the body of its loop for one anchor: the anchor it
\* leaves and the value of changed
LinksFixAnchor(a) ==
    IF a.href = "none" THEN [a |-> a, changed |-> FALSE]
    ELSE IF a.href = "external"
    THEN [a |-> [a EXCEPT !.target = TRUE, !.cls = @ \cup {"dox-external"}],
          changed |-> ~a.target \/ "dox-external" \notin a.cls]
    ELSE IF "m-doc" \in a.cls /\ a.href = "dangling"
    THEN [a |-> [a EXCEPT !.cls = (@ \ {"m-doc"}) \cup {"m-doc-self"},
                          !.href = "self"],
          changed |-> FALSE]
    ELSE [a |-> a, changed |-> FALSE]

LinkFrags ==
    {[fn |-> "links", in |-> a, a |-> a, ret |-> FALSE, done |-> FALSE] :
        a \in LinkAnchors}

LinksFixCall ==
    /\ frag.fn = "links"
    /\ ~frag.done
    /\ LET r == LinksFixAnchor(frag.in)
       IN frag' = [frag EXCEPT !.a = r.a, !.ret = r.changed, !.done = TRUE]
    /\ UNCHANGED pipeVars

InitFrag ==
    /\ Quiet
    /\ \/ frag \in PoolFrags
       \/ frag \in TagsFrags
       \/ frag \in ModFrags
       \/ frag \in BadgeFrags
       \/ frag \in TemplateFrags
       \/ frag \in CommentFrags
       \/ frag \in XmlFrags
       \/ frag \in ClassifyFrags
       \/ frag \in RepairFrags
       \/ frag \in LookupFrags
       \/ frag \in CallFrags
       \/ frag \in LinkFrags
       \/ frag \in CodeFrags
       \/ frag \in DeadFrags
       \/ frag \in AutoFrags

NextFrag ==
    \/ MakePool
    \/ CodePass
    \/ DeadLink
    \/ AutoScan
    \/ TagsExpand
    \/ ModifiersRun
    \/ BadgesRun
    \/ TemplateRun
    \/ CommentPass
    \/ PreprocessCompound
    \/ Classify
    \/ RepairRun
    \/ Lookup
    \/ CodeBlockFixCall
    \/ LinksFixCall

SpecFrag == InitFrag /\ [][NextFrag]_vars

\* -------------------------------------------------------------- properties

Failed(d) == status[d] \in {"parse_error", "fixer_error"}

C2_FlushOnce ==
    \A d \in Docs :
        /\ flushes[d] <= 1
        /\ flushes[d] = 1 =>
              /\ \E k \in DOMAIN rets[d] : rets[d][k]
              /\ Len(rets[d]) = Len(fixes)
              /\ ~Failed(d)

\* one document was flushed and has returned, another went through all
\* fixers unchanged and was not flushed
C2_Witness ==
    \E d, e \in Docs :
        /\ pc[d] = "done" /\ flushes[d] = 1
        /\ pc[e] = "done" /\ status[e] = "ok" /\ flushes[e] = 0

\* C3: in a second run of the pipeline over the output of the first, no
\* parse or fixer error is raised, no fixer reports a change and every
\* document is left as it was.
C3_Idempotent ==
    run = 2 =>
        \A d \in Docs :
            /\ ~Failed(d)
            /\ \A k \in DOMAIN rets[d] : ~rets[d][k]
            /\ disk[d] = orig[d]

\* C4: the abort flag is initially clear, is set only in the except clause
\* of a unit of work that caught a parse or fixer error, and is never
\* cleared; a unit of work that checks the flag after it was set parses
\* nothing, calls no fixer and flushes nothing.
C4_Inv ==
    /\ thread_error <=> setters # {}
    /\ \A d \in setters : Failed(d)
    /\ \A d \in Docs :
          status[d] = "skipped" =>
              /\ pc[d] = "done"
              /\ calls[d] = <<>>
              /\ flushes[d] = 0
              /\ doc[d] = NoDoc
              /\ disk[d] = orig[d]

C4_Act ==
    /\ thread_error => thread_error'
    /\ (~thread_error /\ thread_error') =>
          \E d \in Docs : pc[d] = "except" /\ pc'[d] = "done" /\ Failed(d)
    /\ \A d \in Docs :
          (thread_error /\ pc[d] = "queued" /\ pc'[d] # "queued") =>
              pc'[d] = "done" /\ status'[d] = "skipped"

C5_Inv ==
    \A d \in Docs :
        Failed(d) =>
            /\ pc[d] \in {"except", "done"}
            /\ flushes[d] = 0
            /\ disk[d] = orig[d]
            /\ Len(calls[d]) =
                  Len(rets[d]) + (IF status[d] = "fixer_error" THEN 1 ELSE 0)
            /\ pc[d] = "done" => thread_error /\ d \in setters
            /\ exitCode # <<-1>>

C5_Act ==
    \A d \in Docs :
        Failed(d) =>
            calls'[d] = calls[d] /\ flushes'[d] = flushes[d] /\ disk'[d] = disk[d]

C5_Caught == []C5_Inv /\ [][C5_Act]_vars

\* a fixer raised after an earlier fixer had returned true; the unit has
\* returned, leaving later fixers uncalled
C5_Witness ==
    \E d \in Docs :
        /\ status[d] = "fixer_error"
        /\ pc[d] = "done"
        /\ changed[d]
        /\ Len(calls[d]) < Len(fixes)

\* C6: once main has given its exit status every unit of work has
\* returned; the status is not 0 when some unit hit a parse or fixer error,
\* it is 0 when none did and upstream generation succeeded, and it is -1
\* only when main raised before any page existed.
C6_ExitStatus ==
    exitCode # <<>> =>
        /\ \A d \in Docs : pc[d] = "done"
        /\ (\E d \in Docs : Failed(d)) => exitCode # <<0>>
        /\ ((\A d \in Docs : ~Failed(d)) /\ exitCode # <<-1>>) => exitCode = <<0>>
        /\ exitCode = <<-1>> => Docs = {}

\* main ended with status 1 after one unit failed and another was flushed
C6_Witness ==
    /\ exitCode = <<1>>
    /\ \E d, e \in Docs : Failed(d) /\ status[e] = "ok" /\ flushes[e] = 1

\* C7: at every moment each page on disk is either its original content or
\* the complete serialisation of its tree after the whole fixer sequence.
C7_AllOrNothing ==
    \A d \in Docs :
        \/ disk[d] = orig[d]
        \/ disk[d].ok /\ Len(rets[d]) = Len(fixes)

Started == \E d \in Docs : pc[d] \notin {"idle", "queued"}

\* C8: each symbol set is compiled once, after preprocess_xml has made its
\* additions and before any unit of work starts; the auto-link regexes are
\* compiled once, before any unit of work starts; and neither a compiled
\* set nor anything else of the shared lookup state changes while units of
\* work run.
C8_Inv ==
    /\ \A n \in SetNames : symsets[n].compiled <= 1
    /\ autolinks <= 1
    /\ (\E n \in SetNames : symsets[n].compiled > 0) => xmlDone
    /\ Started => autolinks = 1 /\ \A n \in SetNames : symsets[n].compiled = 1

C8_Act ==
    /\ Started => symsets' = symsets /\ autolinks' = autolinks
    /\ \A n \in SetNames :
          symsets[n].compiled > 0 => symsets'[n].alts = symsets[n].alts

C8_Frozen == []C8_Inv /\ [][C8_Act]_vars

\* a unit of work runs against a set that holds a symbol added by
\* preprocess_xml
C8_Witness ==
    /\ Started
    /\ \E n \in SetNames :
          symsets[n].compiled = 1 /\ symsets[n].alts # DefaultAlts[n]

\* the fixer call that raised is CustomTagsFix
EmojiFailed(d) ==
    /\ status[d] = "fixer_error"
    /\ calls[d] # <<>>
    /\ fixes[calls[d][Len(calls[d])]] = "CustomTagsFix"

\* C9: units of work running at the same time never see the emoji table
\* partly built, the table is built at most once, and no unit of work
\* fails in the emoji handler.
C9_NoEmojiRace ==
    /\ builds <= 1
    /\ \A d \in Docs : ~sawPartial[d] /\ ~EmojiFailed(d)

\* one step of the unit of work d
UnitStep(d) ==
    \/ Parse(d) \/ Fix(d)
    \/ E659(d) \/ E661(d) \/ E662(d) \/ E664(d) \/ E665(d) \/ E679(d)
    \/ E680(d) \/ E681(d) \/ E682(d) \/ E683(d) \/ E684(d) \/ E686(d)
    \/ FlushOpen(d) \/ FlushWrite(d) \/ Catch(d)

\* C10: a unit of work that passed the flag check is not stopped by the
\* flag being set afterwards: while it runs it can always take its next
\* step, and unless it fails itself it returns only after every fixer has
\* returned and, when one of them reported a change, after its document was
\* written.
C10_BestEffort ==
    \A d \in Docs :
        (thread_error /\ pc[d] \notin {"idle", "queued"}
                      /\ status[d] # "skipped" /\ ~Failed(d)) =>
            IF pc[d] = "done"
            THEN /\ Len(rets[d]) = Len(fixes)
                 /\ changed[d] => flushes[d] = 1 /\ disk[d].ok
            ELSE ENABLED UnitStep(d)

\* a unit of work wrote its document after another unit had set the flag
C10_Witness ==
    \E d \in Docs :
        /\ d \notin setters
        /\ pc[d] = "done"
        /\ flushes[d] = 1
        /\ flushFlag[d]

\* C11, as stated: the pool has size min(configured maximum, available
\* parallelism), whether the configured maximum is read as the cap of 64
\* and the parallelism as args.threads, or the maximum as --threads and the
\* parallelism as the processor count.
C11_MinOfBoth ==
    (frag.fn = "pool" /\ frag.done /\ ~frag.raised) =>
        LET t == args_threads(frag.opt, frag.n, frag.cpus)[1]
        IN \/ frag.out = <<Min(PoolCap, t)>>
           \/ frag.out = <<Min(t, frag.cpus)>>

\* C11, amended: the pool has size args.threads clamped into 1..64, where
\* args.threads is the value of --threads or, without the option, the
\* processor count; the processor count does not bound a value given.
C11_Clamped ==
    (frag.fn = "pool" /\ frag.done) =>
        LET t == IF frag.opt = "absent" THEN frag.cpus ELSE frag.n
        IN IF frag.opt = "bare"
           THEN frag.raised
           ELSE /\ ~frag.raised
                /\ frag.out = <<IF t < 1 THEN 1 ELSE IF t > PoolCap THEN PoolCap ELSE t>>

\* a pool made for --threads 0 has one worker
C11_Witness ==
    /\ frag.fn = "pool" /\ frag.done
    /\ frag.opt = "value" /\ frag.n = 0
    /\ frag.out = <<1>>

HasSpan(blk, cls, t) == \E i \in DOMAIN blk : blk[i] = Span(cls, t)

\* C12: for the run a::b::C::V with a::b::C a known type, when a::b::C::V
\* is a known enum value CodeBlockFix marks V as enum value and C as type;
\* when it is not, CodeBlockFix marks C, the last token of the longest
\* prefix that is a known type, as type.
C12_Precedence ==
    (frag.fn = "code" /\ frag.done /\ frag.run = RunABCV
                     /\ nABC \in frag.sym.types) =>
        /\ HasSpan(frag.block, "ut", <<"C">>)
        /\ nABCV \in frag.sym.enums => HasSpan(frag.block, "ne", <<"V">>)

\* C17: the repeat loop of CodeBlockFix over a code block ends: a pass
\* that reports a change never leaves the block as some pass found it (the
\* pass is a function of the block, so the loop then repeats for ever).
C17_Terminates == frag.fn = "code" => ~frag.again

\* the anchor DeadLinksFix was given is a local link to a file that is not
\* in the output directory
DeadLocal(a) == a.href.kind = "local" /\ ~path_exists(a.href.file)

\* C13: after DeadLinksFix has returned, every anchor that was a dead
\* local link has lost class m-doc and has the href '#' + fallback id,
\* whatever its parent is.
C13_Rewritten ==
    (frag.fn = "dead" /\ frag.done /\ frag.raised = "" /\ DeadLocal(frag.in)) =>
        /\ "m-doc" \notin frag.a.cls
        /\ frag.a.href.kind = "self"
        /\ frag.a.href.fragment # ""

\* C14: for a dead local link in a dt or a div an id is produced in each
\* case: the id of the parent when it has one, else the fragment of the
\* original href when it has one, else an id derived by hashing; the call
\* does not raise, and the href becomes '#' + that id.
C14_FallbackId ==
    (frag.fn = "dead" /\ frag.done /\ DeadLocal(frag.in)
                     /\ frag.in.parent \in {"dt", "div"}) =>
        /\ frag.raised = ""
        /\ frag.a.href.kind = "self"
        /\ frag.a.href.fragment # ""
        /\ frag.in.pid # "" => frag.a.href.fragment = frag.in.pid
        /\ (frag.in.pid = "" /\ frag.in.href.fragment # "") =>
              frag.a.href.fragment = frag.in.href.fragment

Links(path) == Cardinality({k \in DOMAIN path : path[k] = "a"})

\* C15: AutoDocLinksFix never has a string in its queue that lies inside a
\* hyperlink, so that no text is inside more than one hyperlink, text in an
\* existing hyperlink or in a container inside one stays as it was, and
\* text wrapped for one expression is not wrapped again; when the fixer
\* returns, no text outside the hyperlinks matches any expression.
C15_NoDoubleWrap ==
    frag.fn = "auto" =>
        /\ \A k \in DOMAIN frag.strings :
              Links(frag.nodes[frag.strings[k]].path) = 0
        /\ \A k \in DOMAIN frag.nodes :
              /\ Links(frag.nodes[k].path) + (IF frag.inA THEN 1 ELSE 0) <= 1
              /\ frag.nodes[k].by # 0 => Len(frag.nodes[k].text) = 1
        /\ frag.inA => frag.nodes = frag.in
        /\ \A k \in DOMAIN frag.in :
              Links(frag.in[k].path) > 0 =>
                  \E m \in DOMAIN frag.nodes : frag.nodes[m] = frag.in[k]
        /\ (frag.done /\ ~frag.inA) =>
              \A k \in DOMAIN frag.nodes :
                  Links(frag.nodes[k].path) = 0 =>
                      \A m \in DOMAIN frag.nodes[k].text :
                          \A e \in DOMAIN expressions :
                              frag.nodes[k].text[m] \notin expressions[e]

\* a string was rewritten for the first expression and its remainder for
\* the second
C15_Witness ==
    /\ frag.fn = "auto" /\ frag.done
    /\ Len(frag.in) = 1
    /\ \E k, m \in DOMAIN frag.nodes :
          frag.nodes[k].by = 1 /\ frag.nodes[m].by = 2

(* C16: CustomTagsFix rewrites a shortcode only when it lies within an     *)
(* allow-listed container and outside every hyperlink: a shortcode with an *)
(* <a> anywhere around it, above the container or below it, stays as text. *)
C16_OutsideLinks ==
    (frag.fn = "tags" /\ frag.expanded) =>
        /\ \E k \in DOMAIN frag.path : frag.path[k] \in allowed_parents
        /\ \A k \in DOMAIN frag.path : frag.path[k] # "a"

IsNumericRef(out) == out # <<>> /\ out[1] = "&#x"

\* the code point a reference &#x<digits>; names
Denoted(out) == int(SubSeq(out, 2, Len(out) - 1), 16)

KnownAliases ==
    {e.key : e \in {r \in RawEmojis : r.hex # <<>>}}
    \cup {a.alias : a \in aliases}

AliasCodePoint(name) ==
    LET key == IF \E a \in aliases : a.alias = name
               THEN (CHOOSE a \in aliases : a.alias = name).key
               ELSE name
    IN int((CHOOSE r \in RawEmojis : r.key = key).hex, 16)[1]

(* C18: an emoji shortcode whose payload, read as a hexadecimal or decimal *)
(* number, is a code point of the emoji set gives that code point; else a  *)
(* payload that lower-cased is a known alias gives the alias's code point  *)
(* (sundae that of ice_cream); every other payload gives the empty string. *)
C18_EmojiResolution ==
    (frag.fn = "tags" /\ frag.tag = "emoji" /\ frag.done
        /\ Expands(frag.path)) =>
        LET c == lower(frag.content)
            hex == int(c, 16)
            dec == int(c, 10)
        IN /\ ~frag.raised
           /\ frag.out =
                IF hex # <<>> /\ hex[1] \in emoji_codepoints
                THEN EmojiRef(hex[1])
                ELSE IF dec # <<>> /\ dec[1] \in emoji_codepoints
                THEN EmojiRef(dec[1])
                ELSE IF c \in KnownAliases
                THEN EmojiRef(AliasCodePoint(c))
                ELSE <<>>

(* C19: an entity shortcode with a non-empty payload gives a numeric       *)
(* character reference exactly when the payload is a number N at most      *)
(* 0x10FFFF, the reference names N and N lies in 0..0x10FFFF; every other  *)
(* payload gives the named entity &payload;.                               *)
C19_EntityResolution ==
    (frag.fn = "tags" /\ frag.tag = "entity" /\ frag.expanded
        /\ frag.content # <<>>) =>
        LET n == int(frag.content, 16)
        IN IF n # <<>> /\ n[1] <= MaxCodePoint
           THEN /\ IsNumericRef(frag.out)
                /\ Denoted(frag.out) = n
                /\ n[1] \in 0..MaxCodePoint
           ELSE frag.out = <<"&">> \o frag.content \o <<";">>

\* a modifier that stands in the text with whitespace on both sides
Raw(text, k) ==
    /\ text[k] \in Modifiers
    /\ k > 1 /\ text[k - 1] = " "
    /\ k < Len(text) /\ text[k + 1] = " "

(* C20: after one run of ModifiersFix1 on a member-list row, and of        *)
(* ModifiersFix2 on a full signature, no recognised modifier remains in    *)
(* the text as raw whitespace-delimited text, however many it carried.     *)
C20_AllPromoted ==
    (frag.fn = "mods" /\ frag.done) =>
        \A k \in DOMAIN frag.text : ~Raw(frag.text, k)

\* the texts of the injected badges of a tag, left to right
RECURSIVE BadgeTexts(_)
BadgeTexts(contents) ==
    IF contents = <<>> THEN <<>>
    ELSE (IF contents[1].kind = "badge" THEN <<contents[1].text>> ELSE <<>>)
         \o BadgeTexts(Tail(contents))

(* C21: the badges ModifiersFix2 reinserts at the end of a signature stand *)
(* in the order in which their modifiers occurred in the signature.        *)
C21_OrderKept ==
    (frag.fn = "badges" /\ frag.done /\ ~frag.raised) =>
        BadgeTexts(frag.out) = frag.mods

\* two declarations that still stand on one line
SameLine(text) ==
    \E j \in DOMAIN text :
        /\ text[j] = ">"
        /\ j < Len(text) /\ IsSpace(text[j + 1])
        /\ RunEnd(text, j + 1) < Len(text)
        /\ text[RunEnd(text, j + 1) + 1] = "T<"

(* C22: after one run of TemplateTemplateFix a line break stands between   *)
(* every two consecutive template declarations that were on one line, for  *)
(* any number of declarations, and a second run changes nothing.           *)
C22_AllBroken ==
    /\ (frag.fn = "template" /\ frag.runs >= 1) => ~SameLine(frag.text)
    /\ (frag.fn = "template" /\ frag.runs = 2) => ~frag.changed

\* an opening marker that has a closing marker among its later siblings
Stitchable(blk) ==
    \E o \in DOMAIN blk : \E c \in DOMAIN blk :
        o < c /\ blk[o] = mlc_open_span /\ blk[c] = mlc_close_span

\* the text of a block with every marker written as a comment delimiter
Delimited(text) ==
    [k \in DOMAIN text |->
        IF text[k] = "/!*" THEN "/*"
        ELSE IF text[k] = "*!/" THEN "*/"
        ELSE text[k]]

HowMany(blk, span) == Cardinality({k \in DOMAIN blk : blk[k] = span})

Comments(blk) == {k \in DOMAIN blk : blk[k].cls = "cm"}

(* C23: after the comment step no opening marker with a later closing      *)
(* marker is left; every closing marker taken has given exactly one        *)
(* comment node, whose text runs from '/*' to the first '*/'; the text of  *)
(* the block is otherwise the same; '/!* h *!/' becomes the one node       *)
(* '/* h */'; a block where no opening marker has a closing marker is      *)
(* unchanged.                                                              *)
C23_Stitched ==
    (frag.fn = "comment" /\ frag.done) =>
        /\ ~Stitchable(frag.block)
        /\ Cardinality(Comments(frag.block))
             = HowMany(frag.first, mlc_close_span)
               - HowMany(frag.block, mlc_close_span)
        /\ \A k \in Comments(frag.block) :
             LET t == frag.block[k].s
             IN /\ Len(t) >= 2
                /\ t[1] = "/*"
                /\ t[Len(t)] = "*/"
                /\ \A j \in 1..(Len(t) - 1) : t[j] \notin {"*!/", "*/"}
        /\ Delimited(JoinText(frag.block, 1, Len(frag.block)))
             = Delimited(JoinText(frag.first, 1, Len(frag.first)))
        /\ Len(frag.first) - Len(frag.block)
             = HowMany(frag.first, mlc_open_span)
               - HowMany(frag.block, mlc_open_span)
               + HowMany(frag.first, Span("text", <<"h">>))
               - HowMany(frag.block, Span("text", <<"h">>))
               + HowMany(frag.first, Span("n", <<"a">>))
               - HowMany(frag.block, Span("n", <<"a">>))
        /\ (frag.first = <<mlc_open_span, Span("text", <<"h">>), mlc_close_span>>)
             => frag.block = <<Span("cm", <<"/*", "h", "*/">>)>>
        /\ ~Stitchable(frag.first) => frag.block = frag.first
        /\ frag.changed = Stitchable(frag.first)

C23_Witness ==
    /\ frag.fn = "comment"
    /\ frag.done
    /\ frag.first = <<mlc_open_span, Span("text", <<"h">>), mlc_close_span,
                      Span("n", <<"a">>), mlc_open_span>>
    /\ frag.block = <<Span("cm", <<"/*", "h", "*/">>), Span("n", <<"a">>),
                      mlc_open_span>>

UserDefined(secs) == {i \in DOMAIN secs : secs[i].kind = "user-defined"}

\* the sections of a list without those that repeat an earlier heading
RECURSIVE FirstOfHeading(_, _)
FirstOfHeading(secs, i) ==
    IF i > Len(secs) THEN <<>>
    ELSE (IF i \in UserDefined(secs)
             /\ \E j \in UserDefined(secs) :
                    j < i /\ secs[j].header = secs[i].header
          THEN <<>> ELSE <<i>>)
         \o FirstOfHeading(secs, i + 1)

\* the members of all sections with the heading of section i, in order
RECURSIVE SameHeading(_, _, _)
SameHeading(secs, h, i) ==
    IF i > Len(secs) THEN <<>>
    ELSE (IF i \in UserDefined(secs) /\ secs[i].header = h
          THEN secs[i].members ELSE <<>>)
         \o SameHeading(secs, h, i + 1)

C30_NoHeading ==
    (frag.fn = "xml" /\ frag.done) =>
        /\ ~frag.raised
        /\ \A i \in UserDefined(frag.compound.sections) :
              frag.compound.sections[i].header \in {"none", ""} =>
                 \E k \in DOMAIN frag.sections :
                    frag.sections[k] = frag.compound.sections[i]

\* the text of the first k tokens of a run
RECURSIVE PrefixText(_, _)
PrefixText(toks, k) ==
    IF k = 0 THEN <<>> ELSE PrefixText(toks, k - 1) \o toks[k].s

\* the prefixes of a run that end in a name and match a known namespace
NamespacePrefixes(sym, toks) ==
    {k \in DOMAIN toks :
        /\ k = Len(toks) \/ toks[k].s # <<Sep>>
        /\ namespaces_fullmatch(sym, PrefixText(toks, k))}

(* C25: when the full run matches neither an enum value nor a type, the    *)
(* classifier keeps the longest prefix that matches a known namespace and  *)
(* collapses its tokens into the first, which carries the prefix text and  *)
(* becomes ns only if it was n, nl or kt; the dropped tokens stay as they  *)
(* were; with no such prefix nothing is changed and it returns false.      *)
C25_NamespaceFallback ==
    (frag.fn = "classify" /\ frag.done
        /\ ~enums_fullmatch(frag.sym, PrefixText(frag.run, Len(frag.run)))
        /\ ~types_fullmatch(frag.sym, PrefixText(frag.run, Len(frag.run)))) =>
        LET K == NamespacePrefixes(frag.sym, frag.run)
            k == CHOOSE x \in K : \A y \in K : y <= x
            first == frag.run[1]
        IN IF K = {}
           THEN frag.block = frag.run /\ ~frag.ret
           ELSE /\ frag.ret
                /\ Smooth(frag.block)
                     = <<Span(IF first.cls \in {"n", "nl", "kt"}
                              THEN "ns" ELSE first.cls,
                              PrefixText(frag.run, k))>>
                       \o SubSeq(frag.run, k + 1, Len(frag.run))

C25_Witness ==
    /\ frag.fn = "classify"
    /\ frag.done
    /\ frag.run = NameRun("n", 7)
    /\ frag.sym = [namespaces |-> {nA, nAB}, types |-> {}, enums |-> {}]
    /\ Smooth(frag.block)
         = <<Span("ns", nAB)>> \o SubSeq(RunABCV, 4, 7)

(* C26: after the repair step a link whose text fully matches a pattern    *)
(* points to the target of a pattern it matches, and a second repair step  *)
(* changes no link and reports no change, also when the text matches two   *)
(* patterns with different targets.                                        *)
C26_RepairStable ==
    /\ (frag.fn = "repair" /\ frag.runs >= 1
           /\ \E e \in DOMAIN expressions : frag.text \in expressions[e]) =>
          \E e \in DOMAIN expressions :
             frag.text \in expressions[e] /\ frag.href = frag.uris[e]
    /\ (frag.fn = "repair" /\ frag.runs = 2) => ~frag.changed

(* C28: DeadLinksFix leaves an anchor without href unchanged and does not  *)
(* raise, so that the processing of the document does not fail.            *)
C28_NoHrefTolerated ==
    (frag.fn = "dead" /\ frag.done /\ frag.in.href.kind = "none") =>
        /\ frag.raised = ""
        /\ frag.a = frag.in

(* C29: find_all_from_sections called with a section id searches exactly   *)
(* the top-level sections with that id, and called with no section all of  *)
(* them; ModifiersFix1 puts a badge into a row only if the row's section   *)
(* is pub-static-methods, pub-methods, friends or func-members.            *)
C29_SectionById ==
    /\ (frag.fn = "lookup" /\ frag.done /\ frag.section = "None") =>
          frag.found = DOMAIN frag.ids
    /\ (frag.fn = "lookup" /\ frag.done
           /\ frag.section \in {"pub-methods", "friends"}) =>
          frag.found = {i \in DOMAIN frag.ids : frag.ids[i] = frag.section}
    /\ (frag.fn = "mods" /\ frag.done /\ frag.fixer = 1
           /\ \A k \in DOMAIN Fix1Sections : Fix1Sections[k] # frag.id) =>
          \A k \in DOMAIN frag.text : frag.text[k] # "<span>"

(* C27: a fixer that has changed the tree of a document returns true (so   *)
(* that postprocess_file flushes the document): CodeBlockFix when it       *)
(* stitched a comment, collapsed a compound name or reclassified a token,  *)
(* LinksFix when it rewrote a dangling internal documentation link.        *)
C27_MutationReported ==
    /\ (frag.fn = "call" /\ frag.done
           /\ (frag.block # frag.first \/ frag.moved)) => frag.ret
    /\ (frag.fn = "links" /\ frag.done /\ frag.a # frag.in) => frag.ret

====
